---- MODULE Spec2Model ----
(***************************************************************************)
(* Model of the crawl/ingestion engine of pc-core (backend/app/services/   *)
(* crawl_service.py) and of the request handlers that start and delete     *)
(* crawl sessions (backend/app/routers/crawl_router.py).                   *)
(*                                                                         *)
(* One background run of run_crawl_session is a process whose position is  *)
(* run[s].pc; the relational tables (crawl_sessions, documents), the files *)
(* on disk and the in-memory registries are shared between the runs.       *)
(***************************************************************************)
EXTENDS Integers, Sequences, FiniteSets, TLC

\* ------------------------------------------------------------------------
\* Bounds of the model
\* ------------------------------------------------------------------------
NumSessions == 3
MaxSeeds == 2
MaxPagesIn == 2
MaxClock == 4
MaxChunks == 3
MaxAppends == 4
MaxPathLen == 3
MaxQueryLen == 2
MaxCalls == 2
MaxQueue == 12
MaxLinks == 2

\* ------------------------------------------------------------------------
\* Program constants
\* ------------------------------------------------------------------------
MAX_CONCURRENT_CRAWLS == 2
MAX_PAGES_ABSOLUTE == 4
MAX_MINUTES_ABSOLUTE == 3
MAX_PAGES_REQUEST == 500000
MAX_MINUTES_REQUEST == 180
MIN_PAGES_PER_SEED == 3
SITEMAP_PATHS == 4
MAX_HEAD_CHECKS_PER_PAGE == 25
PATH_PREFIX_CAP == 20
DIVERSE_BELOW == 5
PRIORITY_INSERT_POS == 10
QUEUE_FLOOR == 50000
VISITED_FLOOR == 100000

Sessions == 1..NumSessions

\* The sessions whose log a reader tails.
Readers == {1}

Max(a, b) == IF a >= b THEN a ELSE b
Min(a, b) == IF a <= b THEN a ELSE b

\* ------------------------------------------------------------------------
\* The URLs of the modelled site, as the crawler meets them
\* ------------------------------------------------------------------------
PageUrls == {"home", "about"}
DocUrls == {"download"}
PdfUrls == {"a.pdf", "b.pdf", "a.pdf#top", "c.pdf?v"}
Urls == PageUrls \cup DocUrls \cup PdfUrls
Hashes == {"h1", "h2"}

\* normalize_url: drops the fragment (tracking parameters and trailing
\* slashes do not occur in the modelled URLs).
normalize_url(u) == IF u = "a.pdf#top" THEN "a.pdf" ELSE u

\* is_pdf_url: ".pdf" in the path or in the query string.
is_pdf_url(u) == u \in PdfUrls

\* is_valid_document with empty policy-type and keyword lists: only the
\* final test on the whole URL text is left, url.endswith('.pdf').
is_valid_document(u) == u \in {"a.pdf", "b.pdf"}

\* is_potential_document_url: a document-ish keyword in the URL.
is_potential_document_url(u) == u \in DocUrls

\* same_domain: every modelled URL is on the seed's registrable domain.
same_domain(seed, u) == seed \in Urls /\ u \in Urls

\* The first two path segments of a URL (the path-diversity key).
path_prefix(u) == IF u \in PageUrls THEN "/" ELSE "/docs"

\* os.path.basename of the URL path, sanitized.
file_name(u) == IF u \in {"a.pdf", "a.pdf#top"} THEN "a" ELSE IF u = "b.pdf" THEN "b" ELSE "c"

VARIABLES
    ACTIVE_CRAWLS,   \* _ACTIVE_CRAWLS: registered id -> time of registration
    config,          \* the start request of each session: seed_urls, max_pages
    req,             \* the start request of each session: its position in
                     \* _start_crawl_logic and the reason of a rejection
    crawl_sessions,  \* table crawl_sessions: one row per session id
    documents,       \* table documents: a set of rows
    disk,            \* files on disk: path -> content digest
    ROBOTS_CACHE,    \* _ROBOTS_CACHE entry of the site's origin
    run,             \* locals of each run of run_crawl_session
    cd,              \* locals of the crawl_domain call in progress
    cleanup_runs,    \* how often the finally block of a run was executed
    fail_cause,      \* the exception that reached the session boundary
    CRAWL_LOGS,      \* _CRAWL_LOGS: the log entries kept for each session id
    appended,        \* how many entries crawl_log has appended for each id
    received,        \* the entries a tailing reader of each id has received
    call             \* calls of a function looked at on its own: arguments,
                     \* locals and results

log_vars == <<CRAWL_LOGS, appended, received>>

vars == <<ACTIVE_CRAWLS, config, req, crawl_sessions, documents, disk,
          ROBOTS_CACHE, run, cd, cleanup_runs, fail_cause, log_vars, call>>

\* ------------------------------------------------------------------------
\* Rows, locals and their initial values
\* ------------------------------------------------------------------------
NoRow ==
    [status |-> "absent", progress_pct |-> 0, pages_scanned |-> 0, pdfs_found |-> 0,
     pdfs_downloaded |-> 0, pdfs_filtered |-> 0, errors_count |-> 0, max_pages |-> 0,
     max_minutes |-> 0]

NoPath == [dir |-> "none", name |-> <<>>]

\* The locals of download_pdf_streaming before the call; result.ok = FALSE
\* stands for the return value None.
NoResult == [ok |-> FALSE, file_size |-> 0, file_hash |-> 0]

NoDownload ==
    [temp_path |-> NoPath, bytes_downloaded |-> 0, sha256_hash |-> 0, elapsed |-> 0,
     chunks |-> 0, streamed |-> <<>>, result |-> NoResult, outcome |-> "none"]

RunInit ==
    [pc |-> "none", expired |-> FALSE, http |-> "none",
     idx |-> 0, pages_per_seed |-> 0, remaining_budget |-> 0, total_pages |-> 0,
     all_pdf_urls |-> {}, global_visited |-> {},
     todo |-> {}, downloaded_count |-> 0, filtered_count |-> 0,
     pdf_url |-> "none", local_path |-> NoPath, file_hash |-> "none",
     dl |-> NoDownload]

CdInit ==
    [seed |-> "none", max_pages |-> 0, sitemap_idx |-> 0, queue |-> <<>>,
     pages_crawled |-> 0, pdf_urls |-> {}, path_diversity |-> [p \in {"/", "/docs"} |-> 0],
     url |-> "none", links |-> <<>>, embeds |-> {}, head_checked |-> 0]

SeqsUpTo(S, n) == UNION {[1..k -> S] : k \in 1..n}

\* A record left by an earlier session whose file is gone from the disk.
LegacyPath == [dir |-> "policy", name |-> <<"old">>]
LegacyDoc == [id |-> 1, file_hash |-> "h1", local_file_path |-> LegacyPath,
              crawl_session_id |-> 0, source_url |-> "a.pdf"]

TypeOK ==
    /\ DOMAIN ACTIVE_CRAWLS \subseteq Sessions
    /\ \A s \in Sessions :
        /\ crawl_sessions[s].status \in {"absent", "queued", "running", "completed", "failed"}
        /\ run[s].http \in {"none", "open", "closed"}
        /\ run[s].all_pdf_urls \subseteq Urls
        /\ cleanup_runs[s] \in 0..1

\* A start request at one of the positions of its handler.
Request(state) == [state |-> state, reason |-> 0]

NoCall == [fn |-> "none"]

InitLogs ==
    /\ CRAWL_LOGS = [s \in Sessions |-> <<>>]
    /\ appended = [s \in Sessions |-> 0]
    /\ received = [s \in Sessions |-> <<>>]

InitSessions ==
    /\ ACTIVE_CRAWLS = <<>>
    /\ crawl_sessions = [s \in Sessions |-> NoRow]
    /\ ROBOTS_CACHE = "miss"
    /\ run = [s \in Sessions |-> RunInit]
    /\ cd = [s \in Sessions |-> CdInit]
    /\ cleanup_runs = [s \in Sessions |-> 0]
    /\ fail_cause = [s \in Sessions |-> "none"]

InitCommon ==
    /\ InitLogs
    /\ call = NoCall
    /\ InitSessions

\* ------------------------------------------------------------------------
\* Concurrency registry
\* ------------------------------------------------------------------------
get_active_crawl_count == Cardinality(DOMAIN ACTIVE_CRAWLS)

\* can_start_crawl()[0]
can_start_crawl == ~(get_active_crawl_count >= MAX_CONCURRENT_CRAWLS)

newest_crawl_id ==
    CHOOSE k \in DOMAIN ACTIVE_CRAWLS :
        \A j \in DOMAIN ACTIVE_CRAWLS : ACTIVE_CRAWLS[k] >= ACTIVE_CRAWLS[j]

\* Line 126: min(_ACTIVE_CRAWLS.keys(), key=lambda k: _ACTIVE_CRAWLS[k])
oldest_crawl_id ==
    CHOOSE k \in DOMAIN ACTIVE_CRAWLS :
        \A j \in DOMAIN ACTIVE_CRAWLS : ACTIVE_CRAWLS[k] <= ACTIVE_CRAWLS[j]

\* can_start_crawl()[1]: the id named in the reason, 0 for None.
can_start_reason == IF can_start_crawl THEN 0 ELSE oldest_crawl_id

\* datetime.now(): later than the time of every registration still held.
utcnow ==
    IF DOMAIN ACTIVE_CRAWLS = {} THEN 1
    ELSE 1 + ACTIVE_CRAWLS[newest_crawl_id]

register_if_room(s) ==
    IF get_active_crawl_count < MAX_CONCURRENT_CRAWLS
    THEN [k \in DOMAIN ACTIVE_CRAWLS \cup {s} |-> IF k = s THEN utcnow ELSE ACTIVE_CRAWLS[k]]
    ELSE ACTIVE_CRAWLS

register_active_crawl(s) ==
    [k \in DOMAIN ACTIVE_CRAWLS \cup {s} |-> IF k = s THEN utcnow ELSE ACTIVE_CRAWLS[k]]

unregister_skipped(s) == ACTIVE_CRAWLS

unregister_active_crawl(s) == [k \in DOMAIN ACTIVE_CRAWLS \ {s} |-> ACTIVE_CRAWLS[k]]

\* ------------------------------------------------------------------------
\* Pure functions on URL text
\* ------------------------------------------------------------------------
\* The text of a URL after its scheme and host, as a sequence of pieces:
\* "/", ";", "?", "&", "#", the path text "a", the query pairs "q" (a=1) and
\* "t" (utm_source=x, a tracking parameter), the fragment text "f".
IndexOf(text, c) ==
    IF \E i \in 1..Len(text) : text[i] = c
    THEN CHOOSE i \in 1..Len(text) : text[i] = c /\ \A j \in 1..(i - 1) : text[j] # c
    ELSE 0

LastIndexOf(text, c) ==
    IF \E i \in 1..Len(text) : text[i] = c
    THEN CHOOSE i \in 1..Len(text) : text[i] = c /\ \A j \in (i + 1)..Len(text) : text[j] # c
    ELSE 0

\* The first index after position from where c occurs, or 0.
IndexAfter(text, c, from) ==
    IF \E i \in (from + 1)..Len(text) : text[i] = c
    THEN CHOOSE i \in (from + 1)..Len(text) :
            text[i] = c /\ \A j \in (from + 1)..(i - 1) : text[j] # c
    ELSE 0

\* urllib.parse.urlparse: the fragment is cut at the first "#", the query at
\* the first "?", the params at the first ";" of the last path segment.
urlparse(url) ==
    LET h == IndexOf(url, "#")
        nofrag == IF h = 0 THEN url ELSE SubSeq(url, 1, h - 1)
        q == IndexOf(nofrag, "?")
        pathpart == IF q = 0 THEN nofrag ELSE SubSeq(nofrag, 1, q - 1)
        p == IndexAfter(pathpart, ";", LastIndexOf(pathpart, "/"))
    IN [path |-> IF p = 0 THEN pathpart ELSE SubSeq(pathpart, 1, p - 1),
        params |-> IF p = 0 THEN <<>> ELSE SubSeq(pathpart, p + 1, Len(pathpart)),
        query |-> IF q = 0 THEN <<>> ELSE SubSeq(nofrag, q + 1, Len(nofrag)),
        fragment |-> IF h = 0 THEN <<>> ELSE SubSeq(url, h + 1, Len(url))]

\* urllib.parse.urlunparse: params, query and fragment are written with
\* their separator only when they are not empty.
urlunparse(path, params, query, fragment) ==
    path \o (IF params = <<>> THEN <<>> ELSE <<";">> \o params)
         \o (IF query = <<>> THEN <<>> ELSE <<"?">> \o query)
         \o (IF fragment = <<>> THEN <<>> ELSE <<"#">> \o fragment)

\* str.rstrip('/')
RECURSIVE rstrip_slash(_)
rstrip_slash(path) ==
    IF path # <<>> /\ path[Len(path)] = "/"
    THEN rstrip_slash(SubSeq(path, 1, Len(path) - 1))
    ELSE path

\* parse_qs(query, keep_blank_values=True): the pairs between "&", empty
\* ones skipped.
RECURSIVE parse_qs(_)
parse_qs(query) ==
    LET amp == IndexOf(query, "&")
        first == IF amp = 0 THEN query ELSE SubSeq(query, 1, amp - 1)
        rest == IF amp = 0 THEN <<>> ELSE parse_qs(SubSeq(query, amp + 1, Len(query)))
    IN IF query = <<>> THEN <<>>
       ELSE IF first = <<>> THEN rest ELSE <<first>> \o rest

\* k.lower() in TRACKING_PARAMS
is_tracking(pair) == Head(pair) = "t"

\* urlencode(params, doseq=True)
RECURSIVE urlencode(_)
urlencode(pairs) ==
    IF pairs = <<>> THEN <<>>
    ELSE IF Len(pairs) = 1 THEN Head(pairs)
    ELSE Head(pairs) \o <<"&">> \o urlencode(Tail(pairs))

\* The dictionary comprehension that drops the tracking parameters.
drop_tracking(pairs) == SelectSeq(pairs, LAMBDA pair : ~is_tracking(pair))

\* normalize_url on URL text.
normalize_text(url) ==
    LET parsed == urlparse(url)
        stripped == rstrip_slash(parsed.path)
        path == IF stripped = <<>> THEN <<"/">> ELSE stripped
        query == urlencode(drop_tracking(parse_qs(parsed.query)))
    IN urlunparse(path, parsed.params, query, <<>>)

\* The URL texts normalize_url is called with: a path that is empty or
\* starts with "/", then possibly a query and a fragment.
PathTexts ==
    {<<>>} \cup {<<"/">> \o rest : rest \in {<<>>} \cup SeqsUpTo({"/", ";", "a"}, MaxPathLen - 1)}

QueryTexts == {<<>>} \cup {<<"?">> \o rest : rest \in {<<>>} \cup SeqsUpTo({"q", "t", "&"}, MaxQueryLen)}

FragmentTexts == {<<>>, <<"#", "f">>}

UrlTexts == {p \o q \o f : p \in PathTexts, q \in QueryTexts, f \in FragmentTexts}

\* normalized = normalize_url(url)
NormalizeOnce ==
    /\ call.fn = "normalize_url"
    /\ call.calls = 0
    /\ call' = [call EXCEPT !.calls = 1, !.once = normalize_text(call.url)]
    /\ UNCHANGED <<ACTIVE_CRAWLS, config, log_vars, req, crawl_sessions, documents, disk,
                   ROBOTS_CACHE, run, cd, cleanup_runs, fail_cause>>

\* normalize_url(normalized)
NormalizeAgain ==
    /\ call.fn = "normalize_url"
    /\ call.calls = 1
    /\ call' = [call EXCEPT !.calls = 2, !.twice = normalize_text(call.once)]
    /\ UNCHANGED <<ACTIVE_CRAWLS, config, log_vars, req, crawl_sessions, documents, disk,
                   ROBOTS_CACHE, run, cd, cleanup_runs, fail_cause>>

\* A netloc is a host, written as its labels from left to right, and a
\* port ("" when the URL names none).
CCLD_SUFFIXES == {<<"co", "nz">>, <<"org", "nz">>, <<"co", "uk">>}

LastLabels(parts, n) == SubSeq(parts, Len(parts) - n + 1, Len(parts))

\* netloc.lower().removeprefix('www.').split(':')[0].split('.')
host_parts(netloc) ==
    IF Len(netloc.labels) >= 2 /\ Head(netloc.labels) = "www"
    THEN Tail(netloc.labels)
    ELSE netloc.labels

get_base_domain(netloc) ==
    LET parts == host_parts(netloc)
    IN IF Len(parts) >= 3 /\ LastLabels(parts, 2) \in CCLD_SUFFIXES
       THEN LastLabels(parts, 3)
       ELSE IF Len(parts) >= 2 THEN LastLabels(parts, 2)
       ELSE parts

same_domain_netloc(seed, candidate) == get_base_domain(seed) = get_base_domain(candidate)

\* The hosts same_domain is called with: an organisation's label under a
\* public suffix, bare or with "www" and a subdomain in front, with or
\* without a port.  "ac.uk" is a second-level suffix of a country-code
\* domain that the CCLD_SUFFIXES of the source do not list.
HostSuffixes == {<<"com">>, <<"co", "nz">>, <<"ac", "uk">>}

HostPrefixes == {<<>>, <<"www">>, <<"shop">>, <<"www", "shop">>}

Netlocs ==
    {[labels |-> pre \o <<org>> \o suf, port |-> port] :
        pre \in HostPrefixes, org \in {"tower", "other"}, suf \in HostSuffixes,
        port \in {"", "8080"}}

\* same_domain(seed_url, candidate_url), with the arguments also swapped
\* and with the seed as its own candidate.
SameDomain ==
    /\ call.fn = "same_domain"
    /\ call.calls = 0
    /\ call' = [call EXCEPT !.calls = 1,
                            !.result = same_domain_netloc(call.seed, call.candidate),
                            !.swapped = same_domain_netloc(call.candidate, call.seed),
                            !.self = same_domain_netloc(call.seed, call.seed)]
    /\ UNCHANGED <<ACTIVE_CRAWLS, config, log_vars, req, crawl_sessions, documents, disk,
                   ROBOTS_CACHE, run, cd, cleanup_runs, fail_cause>>

\* ------------------------------------------------------------------------
\* classify_document
\* ------------------------------------------------------------------------
\* Scores and confidences are counted in thousandths (0.85 is 850).  A
\* document type is represented by one of its keywords; the input says in
\* which of the URL, the filename and the text sample the keyword occurs.
DocTypes == <<"PDS", "Policy Wording", "Product Guide">>

Places == {"url", "filename", "text"}

\* CLASSIFICATION_RULES[doc_type]["weight"]
weight(doc_type) ==
    CASE doc_type = "PDS" -> 1000
      [] doc_type = "Policy Wording" -> 900
      [] doc_type = "Product Guide" -> 700

\* The score of a keyword found in the places of where.
keyword_score(doc_type, where) ==
    weight(doc_type)
        + (IF "url" \in where THEN 50 ELSE 0)
        + (IF "filename" \in where THEN 50 ELSE 0)
        + (IF "text" \in where THEN 100 ELSE 0)

\* Stage 1 and 2: the loop over CLASSIFICATION_RULES, from type number i
\* with the best match so far.
RECURSIVE best_match(_, _, _)
best_match(matches, i, best) ==
    IF i > Len(DocTypes) THEN best
    ELSE LET doc_type == DocTypes[i]
             score == keyword_score(doc_type, matches[doc_type])
         IN IF matches[doc_type] # {} /\ score > best.score
            THEN best_match(matches, i + 1, [score |-> score, classification |-> doc_type])
            ELSE best_match(matches, i + 1, best)

\* Stage 3: the score of the policy category whose keyword occurs in the
\* places of where.
policy_score(where, multiword) ==
    (IF "url" \in where THEN (IF multiword THEN 4 ELSE 2) ELSE 0)
        + (IF "filename" \in where THEN (IF multiword THEN 6 ELSE 3) ELSE 0)
        + (IF "text" \in where THEN (IF multiword THEN 3 ELSE 1) ELSE 0)

\* The classification and the confidence before the file size is looked at.
base_classification(in) ==
    LET match == best_match(in.matches, 1, [score |-> 0, classification |-> "Unclassified"])
        best_pt_score == policy_score(in.policy_where, in.policy_multiword)
        best_match_score ==
            IF best_pt_score > 0 /\ match.score > 0
            THEN Min(match.score + 50, 1000)
            ELSE match.score
    IN IF best_match_score > 0
       THEN [classification |-> match.classification,
             confidence |-> Min(best_match_score, 1000), warnings |-> {}]
       ELSE IF best_pt_score > 0
       THEN [classification |-> "General Document",
             confidence |-> Min(400 + best_pt_score * 50, 700),
             warnings |-> {"Document type unclear"}]
       ELSE IF in.has_pdf_extension
       THEN [classification |-> "General Document", confidence |-> 300,
             warnings |-> {"No classification keyword match"}]
       ELSE [classification |-> "Unknown", confidence |-> 100,
             warnings |-> {"Unable to classify"}]

\* file_size is <<>> for None and <<n>> for n bytes; "if file_size:" is
\* false for None and for 0.
size_given(file_size) == file_size # <<>> /\ file_size[1] # 0

\* The tenths the confidence is multiplied by, and the warning added.
size_rule_half(file_size) == [tenths |-> 5, warnings |-> {"Very small file"}]

size_rule(file_size) ==
    IF ~size_given(file_size) THEN [tenths |-> 10, warnings |-> {}]
    ELSE IF file_size[1] < 10000 THEN [tenths |-> 5, warnings |-> {"Very small file"}]
    ELSE IF file_size[1] < 50000 THEN [tenths |-> 8, warnings |-> {"Small file size"}]
    ELSE IF file_size[1] > 20000000 THEN [tenths |-> 9, warnings |-> {"Very large file"}]
    ELSE [tenths |-> 10, warnings |-> {}]

\* The confidence after the file size heuristics.
adjusted_confidence(in) ==
    (base_classification(in).confidence * size_rule(in.file_size).tenths) \div 10

\* round(confidence, 2): half a hundredth goes up, except 0.425, whose
\* binary floating-point value lies below the half.
round2(confidence) ==
    IF confidence = 425 THEN 420 ELSE ((confidence + 5) \div 10) * 10

classify_document(in) ==
    LET base == base_classification(in)
        confidence == adjusted_confidence(in)
        warnings == base.warnings \cup size_rule(in.file_size).warnings
    IN [classification |-> base.classification,
        confidence |-> round2(confidence),
        status |-> IF confidence >= 850 THEN "auto-approved" ELSE "needs-review",
        warnings |-> IF confidence >= 850 THEN warnings
                     ELSE IF confidence >= 500 THEN warnings \cup {"Low confidence"}
                     ELSE warnings \cup {"Very low confidence"}]

\* The inputs classify_document is called with.
FileSizes == {<<>>, <<0>>, <<9999>>, <<10000>>, <<49999>>, <<50000>>, <<20000001>>}

ClassifyInputs ==
    [matches : [{DocTypes[i] : i \in 1..Len(DocTypes)} -> SUBSET Places],
     policy_where : SUBSET Places,
     policy_multiword : BOOLEAN,
     has_pdf_extension : BOOLEAN,
     file_size : FileSizes]

NoClassification == [classification |-> "Unclassified", confidence |-> 0, status |-> "none", warnings |-> {}]

\* classification_result = classify_document(url, filename, policy_type,
\* file_size, pdf_text_sample)
ClassifyDocument ==
    /\ call.fn = "classify_document"
    /\ call.calls = 0
    /\ call' = [call EXCEPT !.calls = 1, !.result = classify_document(call.in)]
    /\ UNCHANGED <<ACTIVE_CRAWLS, config, log_vars, req, crawl_sessions, documents, disk,
                   ROBOTS_CACHE, run, cd, cleanup_runs, fail_cause>>

\* ------------------------------------------------------------------------
\* The in-memory log store
\* ------------------------------------------------------------------------
\* Entries kept per session (2000 in the source, scaled).
MAX_LOG_ENTRIES == 2

\* The entry of the n-th crawl_log call for a session.
Entry(s, n) == [crawl_id |-> s, msg |-> n]

keep_oldest(logs) ==
    IF Len(logs) > MAX_LOG_ENTRIES THEN SubSeq(logs, 1, MAX_LOG_ENTRIES) ELSE logs

\* logs[-MAX_LOG_ENTRIES:] when the list has grown past the cap.
trim(logs) ==
    IF Len(logs) > MAX_LOG_ENTRIES
    THEN SubSeq(logs, Len(logs) - MAX_LOG_ENTRIES + 1, Len(logs))
    ELSE logs

\* logs[since:]
slice_from(logs, since) == SubSeq(logs, since + 1, Len(logs))

\* crawl_log(crawl_id, level, message)
CrawlLog(s) ==
    /\ appended[s] < MaxAppends
    /\ appended' = [appended EXCEPT ![s] = @ + 1]
    /\ CRAWL_LOGS' = [CRAWL_LOGS EXCEPT ![s] = trim(Append(@, Entry(s, appended[s] + 1)))]
    /\ UNCHANGED <<ACTIVE_CRAWLS, config, req, crawl_sessions, documents, disk,
                   ROBOTS_CACHE, run, cd, cleanup_runs, fail_cause, received, call>>

\* GET /{crawl_id}/logs?since=N by a reader that passes the number of
\* entries it has received so far.
GetCrawlLogs(s) ==
    /\ s \in Readers
    /\ LET since == Len(received[s])
           logs == slice_from(CRAWL_LOGS[s], since)
       IN received' = [received EXCEPT ![s] = @ \o logs]
    /\ UNCHANGED <<ACTIVE_CRAWLS, config, req, crawl_sessions, documents, disk,
                   ROBOTS_CACHE, run, cd, cleanup_runs, fail_cause, CRAWL_LOGS, appended,
                   call>>

\* ------------------------------------------------------------------------
\* Request handler _start_crawl_logic: the admission check, and then the
\* creation of the session row and the scheduling of the background run.
\* Other requests may be served between the two.
\* ------------------------------------------------------------------------
\* What a seed URL can be besides a URL of the modelled site: a string with
\* no scheme, a URL of another scheme, the bare http scheme with no host.
OtherSeeds == {"not-a-valid-url", "ftp://site", "http://"}

\* url.startswith(("http://", "https://"))
has_http_prefix(u) == u \in Urls \cup {"http://"}

\* CrawlConfigRequest.validate_seed_urls
validate_seed_urls(v) == \A i \in 1..Len(v) : has_http_prefix(v[i])

\* The field constraints of CrawlConfigRequest and its seed validator.
valid_request(c) ==
    /\ Len(c.seed_urls) >= 1
    /\ validate_seed_urls(c.seed_urls)
    /\ c.max_pages >= 1 /\ c.max_pages <= MAX_PAGES_REQUEST
    /\ c.max_minutes >= 1 /\ c.max_minutes <= MAX_MINUTES_REQUEST

\* The request body is validated before _start_crawl_logic is entered; a
\* body that fails is answered 422.
ValidateRequest(s) ==
    /\ req[s].state = "idle"
    /\ req' = [req EXCEPT ![s] = Request(IF valid_request(config[s]) THEN "valid" ELSE "invalid")]
    /\ UNCHANGED <<ACTIVE_CRAWLS, config, log_vars, call, crawl_sessions, documents, disk, ROBOTS_CACHE,
                   run, cd, cleanup_runs, fail_cause>>

AdmissionCheck(s) ==
    /\ req[s].state = "valid"
    /\ req' = [req EXCEPT ![s] = IF can_start_crawl
                                 THEN Request("admitted")
                                 ELSE [state |-> "rejected", reason |-> can_start_reason]]
    /\ UNCHANGED <<ACTIVE_CRAWLS, config, log_vars, call, crawl_sessions, documents, disk, ROBOTS_CACHE,
                   run, cd, cleanup_runs, fail_cause>>

create_crawl_session(s) ==
    [NoRow EXCEPT !.status = "queued",
                  !.max_pages = Min(config[s].max_pages, MAX_PAGES_ABSOLUTE),
                  !.max_minutes = Min(config[s].max_minutes, MAX_MINUTES_ABSOLUTE)]

CreateAndSchedule(s) ==
    /\ req[s].state = "admitted"
    /\ \E db_ok \in BOOLEAN :
        IF db_ok
        THEN /\ crawl_sessions' = [crawl_sessions EXCEPT ![s] = create_crawl_session(s)]
             /\ run' = [run EXCEPT ![s].pc = "scheduled"]
             /\ req' = [req EXCEPT ![s] = Request("started")]
        ELSE /\ req' = [req EXCEPT ![s] = Request("error")]
             /\ UNCHANGED <<crawl_sessions, run>>
    /\ UNCHANGED <<ACTIVE_CRAWLS, config, log_vars, call, documents, disk, ROBOTS_CACHE, cd,
                   cleanup_runs, fail_cause>>

\* ------------------------------------------------------------------------
\* run_crawl_session
\* ------------------------------------------------------------------------
\* The locals of a run that has left the two loops: only its position and
\* the HTTP client matter from there on.
Leaving(r, pc) == [RunInit EXCEPT !.pc = pc, !.http = r.http]

\* The locals of a run that goes on to the next candidate.
NextCandidate(r) ==
    [r EXCEPT !.pc = "download_loop", !.pdf_url = "none", !.local_path = NoPath,
              !.file_hash = "none"]

\* What crawl_domain returns: the PDF URLs found and the pages crawled.
Returned(pdf_urls, pages_crawled) ==
    [CdInit EXCEPT !.pdf_urls = pdf_urls, !.pages_crawled = pages_crawled]

\* An exception leaves the try block for one of the two handlers at the
\* session boundary.
Raise(s, cause) ==
    /\ run' = [run EXCEPT ![s] = Leaving(run[s], "except")]
    /\ fail_cause' = [fail_cause EXCEPT ![s] = cause]

Register(s) ==
    /\ run[s].pc = "scheduled"
    /\ ACTIVE_CRAWLS' = register_active_crawl(s)
    /\ run' = [run EXCEPT ![s].pc = "open"]
    /\ UNCHANGED <<config, log_vars, call, req, crawl_sessions, documents, disk, ROBOTS_CACHE, cd,
                   cleanup_runs, fail_cause>>

\* Lines 1559-1609: load the row, mark it running, fix the budgets.
OpenSession(s) ==
    /\ run[s].pc = "open"
    /\ \E db_ok \in BOOLEAN :
        IF ~db_ok
        THEN Raise(s, "open") /\ UNCHANGED crawl_sessions
        ELSE IF crawl_sessions[s].status = "absent"
        THEN /\ run' = [run EXCEPT ![s].pc = "finally"]
             /\ UNCHANGED <<crawl_sessions, fail_cause>>
        ELSE /\ crawl_sessions' = [crawl_sessions EXCEPT ![s].status = "running"]
             /\ run' = [run EXCEPT
                    ![s].pc = "seed_loop",
                    ![s].http = "open",
                    ![s].pages_per_seed =
                        Max(MIN_PAGES_PER_SEED,
                            crawl_sessions[s].max_pages \div Max(1, Len(config[s].seed_urls))),
                    ![s].remaining_budget = crawl_sessions[s].max_pages]
             /\ UNCHANGED fail_cause
    /\ UNCHANGED <<ACTIVE_CRAWLS, config, log_vars, call, req, documents, disk, ROBOTS_CACHE, cd,
                   cleanup_runs>>

\* The clock passes the deadline time_limit of a run that is in one of its
\* two loops, the only places where the deadline is read. A step that makes
\* a request stands for the whole request, so a deadline that passes while
\* the request is in flight passes right after that step; the instant between
\* a deadline check and the request it guards is not a separate state.
DeadlinePasses(s) ==
    /\ run[s].pc \notin {"none", "scheduled", "open", "fetch", "download", "complete",
                         "summary", "except", "finally", "done"}
    /\ ~(run[s].pc = "crawl_domain" /\ cd[s].sitemap_idx = 0)
    /\ ~run[s].expired
    /\ run' = [run EXCEPT ![s].expired = TRUE]
    /\ UNCHANGED <<ACTIVE_CRAWLS, config, log_vars, call, req, crawl_sessions, documents, disk,
                   ROBOTS_CACHE, cd, cleanup_runs, fail_cause>>

\* Lines 890, 1613 and 1675: time_limit and datetime.now(timezone.utc) > time_limit
deadline_ignored(r) == FALSE

past_deadline(r) == r.expired

\* Line 1621: a seed gets its share, never more than what is left.
seed_budget_unclamped(s) == run[s].pages_per_seed

seed_budget(s) == Min(run[s].pages_per_seed, run[s].remaining_budget)

\* Top of the per-seed loop (lines 1612-1639), and the start of phase 2
\* (lines 1661-1672) when the loop ends.
SeedLoop(s) ==
    /\ run[s].pc = "seed_loop"
    /\ IF \/ run[s].idx = Len(config[s].seed_urls)
          \/ past_deadline(run[s])
          \/ run[s].remaining_budget <= 0
       THEN /\ run' = [run EXCEPT ![s].pc = "download_loop",
                                  ![s].idx = 0,
                                  ![s].todo = run[s].all_pdf_urls,
                                  ![s].global_visited = {},
                                  ![s].pages_per_seed = 0,
                                  ![s].remaining_budget = 0,
                                  ![s].total_pages = 0]
            /\ UNCHANGED cd
       ELSE /\ run' = [run EXCEPT ![s].pc = "crawl_domain", ![s].idx = @ + 1]
            /\ cd' = [cd EXCEPT ![s] =
                        [CdInit EXCEPT
                            !.seed = config[s].seed_urls[run[s].idx + 1],
                            !.max_pages = seed_budget(s)]]
    /\ UNCHANGED <<ACTIVE_CRAWLS, config, log_vars, call, req, crawl_sessions, documents, disk,
                   ROBOTS_CACHE, cleanup_runs, fail_cause>>

\* Lines 1641-1651: crawl_domain has returned (cd[s].pdf_urls, cd[s].pages_crawled).
SeedDone(s) ==
    /\ run[s].pc = "seed_done"
    /\ \E db_ok \in BOOLEAN :
        LET urls == run[s].all_pdf_urls \cup cd[s].pdf_urls
            total == run[s].total_pages + cd[s].pages_crawled
            loc == [run EXCEPT ![s].all_pdf_urls = urls,
                               ![s].total_pages = total,
                               ![s].remaining_budget = @ - cd[s].pages_crawled]
        IN IF db_ok
           THEN /\ crawl_sessions' = [crawl_sessions EXCEPT
                        ![s].pages_scanned = total,
                        ![s].pdfs_found = Cardinality(urls),
                        ![s].progress_pct =
                            Min(50, (run[s].idx * 50) \div Max(1, Len(config[s].seed_urls)))]
                /\ run' = [loc EXCEPT ![s].pc = "seed_loop"]
                /\ UNCHANGED fail_cause
           ELSE /\ Raise(s, "seed_commit")
                /\ UNCHANGED crawl_sessions
    /\ cd' = [cd EXCEPT ![s] = CdInit]
    /\ UNCHANGED <<ACTIVE_CRAWLS, config, log_vars, call, req, documents, disk, ROBOTS_CACHE, cleanup_runs>>

\* ------------------------------------------------------------------------
\* crawl_domain, called for the seed cd[s].seed with budget cd[s].max_pages
\* ------------------------------------------------------------------------
CRAWL_MODE == "breadth"
CRAWL_RESPECT_ROBOTS == TRUE

\* Lines 836-843: a seed that is itself a PDF URL is a one-page crawl.
CrawlDirectPdf(s) ==
    /\ run[s].pc = "crawl_domain"
    /\ is_pdf_url(cd[s].seed)
    /\ LET normalized == normalize_url(cd[s].seed)
       IN cd' = [cd EXCEPT ![s] =
                    Returned(IF is_valid_document(normalized) THEN {normalized} ELSE {}, 1)]
    /\ run' = [run EXCEPT ![s].pc = "seed_done"]
    /\ UNCHANGED <<ACTIVE_CRAWLS, config, log_vars, call, req, crawl_sessions, documents, disk,
                   ROBOTS_CACHE, cleanup_runs, fail_cause>>

\* What a sitemap path can answer: nothing usable, or <loc> entries with ".pdf".
SitemapAnswers == {{}, {"a.pdf#top", "b.pdf"}, {"c.pdf?v"}}

\* Lines 845-866 with extract_from_sitemap (763-810): one GET per sitemap
\* path; the first answer that lists PDFs ends the probe, and the crawl too
\* when one of them passes the filter.
SitemapProbeOn(s, answers) ==
    /\ run[s].pc = "crawl_domain"
    /\ ~is_pdf_url(cd[s].seed)
    /\ \E locs \in answers :
        LET sitemap_pdfs == {normalize_url(u) : u \in locs}
            valid_pdfs == {u \in sitemap_pdfs : is_valid_document(u)}
        IN IF valid_pdfs # {}
           THEN /\ cd' = [cd EXCEPT ![s] = Returned(valid_pdfs, 1)]
                /\ run' = [run EXCEPT ![s].pc = "seed_done"]
           ELSE IF sitemap_pdfs # {} \/ cd[s].sitemap_idx + 1 = SITEMAP_PATHS
           THEN /\ cd' = [cd EXCEPT ![s].queue = <<cd[s].seed>>]
                /\ run' = [run EXCEPT ![s].pc = "page_loop"]
           ELSE /\ cd' = [cd EXCEPT ![s].sitemap_idx = @ + 1]
                /\ UNCHANGED run
    /\ UNCHANGED <<ACTIVE_CRAWLS, config, log_vars, call, req, crawl_sessions, documents, disk,
                   ROBOTS_CACHE, cleanup_runs, fail_cause>>

SitemapProbe(s) == SitemapProbeOn(s, SitemapAnswers)

\* RobotFileParser.read() on a cache miss: the request for /robots.txt
\* raises (no connection, timeout, undecodable body), is answered 401/403
\* (the parser sets disallow_all), another 4xx (allow_all), 5xx (the parser
\* stays unread) or 200 with rules that are then parsed.
ReadOutcomes == {"raises", "status_403", "status_404", "status_503", "deny_all", "deny_about"}

\* The cache entry written after read(): None ("absent") when it raised,
\* the parser otherwise.
cache_after_read(outcome) == IF outcome = "raises" THEN "absent" ELSE outcome

\* The entries a session-level specification draws on a miss: one per
\* behaviour of the entry (allow all, deny all, deny one page).
RobotsAnswers == {cache_after_read(o) : o \in {"raises", "deny_all", "deny_about"}}

AllRobotsAnswers == {cache_after_read(o) : o \in ReadOutcomes}

\* can_fetch with the entry of the origin: allow in bypass mode and for a
\* None entry, rp.can_fetch(USER_AGENT, url) for a parser, which is False
\* for disallow_all, True for allow_all, False for a parser never read.
robots_allows(rules, u) ==
    \/ ~CRAWL_RESPECT_ROBOTS
    \/ rules = "absent"
    \/ rules = "status_404"
    \/ rules = "deny_about" /\ u # "about"

\* queue.popleft() for breadth-first, queue.pop() for depth-first.
PopIndexIn(mode, q) == IF mode = "depth" THEN Len(q) ELSE 1

PopIndex(q) == PopIndexIn(CRAWL_MODE, q)

keep_entry(q, i) == q

Remove(q, i) == [j \in 1..(Len(q) - 1) |-> IF j < i THEN q[j] ELSE q[j + 1]]

\* Lines 919-922 and 927-929: the URL leaves the queue, nothing else of the
\* crawl changes.
skip_counted(c, rest) == [c EXCEPT !.queue = rest, !.pages_crawled = @ + 1]

skip_url(c, rest) == [c EXCEPT !.queue = rest]

\* Lines 921 and 924: visited.add(url), on the set the seeds share.
forget(visited, url) == visited

visit(visited, url) == visited \cup {url}

\* The memory limits of crawl_domain: max(max_pages * 5, 100000) visited
\* URLs and max(max_pages * 5, 50000) queue entries.
Limits == [factor |-> 5, visited_floor |-> VISITED_FLOOR, queue_floor |-> QUEUE_FLOOR]

\* The same limits scaled to the size of the modelled site.
SmallLimits == [factor |-> 1, visited_floor |-> 1, queue_floor |-> 1]

visited_ceiling(limits, max_pages) == Max(max_pages * limits.factor, limits.visited_floor)

queue_ceiling(limits, max_pages) == Max(max_pages * limits.factor, limits.queue_floor)

\* Lines 888-936: the top of the page loop up to the decision to fetch.
PageLoopWith(s, answers, limits) ==
    /\ run[s].pc = "page_loop"
    /\ IF \/ cd[s].queue = <<>>
          \/ cd[s].pages_crawled >= cd[s].max_pages
          \/ past_deadline(run[s])
          \/ Cardinality(run[s].global_visited) > visited_ceiling(limits, cd[s].max_pages)
       THEN /\ run' = [run EXCEPT ![s].pc = "seed_done"]
            /\ cd' = [cd EXCEPT ![s] = Returned(cd[s].pdf_urls, cd[s].pages_crawled)]
            /\ UNCHANGED ROBOTS_CACHE
       ELSE LET i == PopIndex(cd[s].queue)
                url == cd[s].queue[i]
                rest == Remove(cd[s].queue, i)
            IN IF url \in run[s].global_visited
               THEN /\ cd' = [cd EXCEPT ![s].queue = rest]
                    /\ UNCHANGED <<run, ROBOTS_CACHE>>
               ELSE \E rules \in (IF ROBOTS_CACHE = "miss" THEN answers ELSE {ROBOTS_CACHE}) :
                    /\ ROBOTS_CACHE' = IF CRAWL_RESPECT_ROBOTS THEN rules ELSE ROBOTS_CACHE
                    /\ IF ~robots_allows(rules, url) \/ ~same_domain(cd[s].seed, url)
                       THEN /\ cd' = [cd EXCEPT ![s] = skip_url(cd[s], rest)]
                            /\ run' = [run EXCEPT ![s].global_visited = visit(@, url)]
                       ELSE /\ cd' = [cd EXCEPT ![s].queue = rest,
                                                ![s].url = url,
                                                ![s].pages_crawled = @ + 1]
                            /\ run' = [run EXCEPT ![s].global_visited = visit(@, url),
                                                  ![s].pc = "fetch"]
    /\ UNCHANGED <<ACTIVE_CRAWLS, config, log_vars, call, req, crawl_sessions, documents, disk,
                   cleanup_runs, fail_cause>>

PageLoopOn(s, answers) == PageLoopWith(s, answers, Limits)

PageLoop(s) == PageLoopOn(s, RobotsAnswers)

\* The same step under the scaled limits.
PageLoopSmall(s) == PageLoopWith(s, RobotsAnswers, SmallLimits)

\* The same step with every outcome of the robots request.
PageLoopAnyRobots(s) == PageLoopOn(s, AllRobotsAnswers)

\* ------------------------------------------------------------------------
\* can_fetch, statement by statement, called by concurrent crawl threads
\* ------------------------------------------------------------------------
\* The threads that call can_fetch for URLs of the one origin.
Checkers == {1, 2}

NoHolder == 0

\* The end of a "with _ROBOTS_CACHE_LOCK:" block.
keep_lock(holder) == holder

release(holder) == NoHolder

\* Lines 232-242: a new call; in bypass mode it returns at once.
CanFetchCall(t) ==
    /\ call.fn = "can_fetch"
    /\ call.pc[t] = "idle"
    /\ call.calls[t] < MaxCalls
    /\ \E url \in PageUrls :
        call' = [call EXCEPT !.calls[t] = @ + 1,
                             !.url[t] = url,
                             !.fetched[t] = FALSE,
                             !.pc[t] = IF CRAWL_RESPECT_ROBOTS THEN "check" ELSE "idle",
                             !.result[t] = TRUE]
    /\ UNCHANGED <<ACTIVE_CRAWLS, config, log_vars, req, crawl_sessions, documents, disk,
                   ROBOTS_CACHE, run, cd, cleanup_runs, fail_cause>>

\* Lines 245, 265, 275: the lock is taken when no thread holds it.
AcquireCacheLock(t) ==
    /\ call.fn = "can_fetch"
    /\ call.pc[t] \in {"check", "store"}
    /\ call.lock = NoHolder
    /\ call' = [call EXCEPT !.lock = t,
                            !.pc[t] = IF call.pc[t] = "check" THEN "checking" ELSE "storing"]
    /\ UNCHANGED <<ACTIVE_CRAWLS, config, log_vars, req, crawl_sessions, documents, disk,
                   ROBOTS_CACHE, run, cd, cleanup_runs, fail_cause>>

\* Lines 246-253: under the lock, a cached entry answers the call.
CheckCache(t) ==
    /\ call.fn = "can_fetch"
    /\ call.pc[t] = "checking"
    /\ call' = IF ROBOTS_CACHE # "miss"
               THEN [call EXCEPT !.lock = release(call.lock),
                                 !.result[t] = robots_allows(ROBOTS_CACHE, call.url[t]),
                                 !.pc[t] = "idle"]
               ELSE [call EXCEPT !.lock = release(call.lock), !.pc[t] = "read"]
    /\ UNCHANGED <<ACTIVE_CRAWLS, config, log_vars, req, crawl_sessions, documents, disk,
                   ROBOTS_CACHE, run, cd, cleanup_runs, fail_cause>>

\* Lines 256-261: rp.read(), the request for the robots file.
ReadRobots(t) ==
    /\ call.fn = "can_fetch"
    /\ call.pc[t] = "read"
    /\ \E outcome \in ReadOutcomes :
        call' = [call EXCEPT !.rp[t] = cache_after_read(outcome),
                             !.fetched[t] = TRUE,
                             !.fetches = @ + 1,
                             !.pc[t] = "store"]
    /\ UNCHANGED <<ACTIVE_CRAWLS, config, log_vars, req, crawl_sessions, documents, disk,
                   ROBOTS_CACHE, run, cd, cleanup_runs, fail_cause>>

\* Lines 265-270 and 275-278: under the lock the parser, or None, is
\* written to the cache; the answer is computed from it.
StoreRobots(t) ==
    /\ call.fn = "can_fetch"
    /\ call.pc[t] = "storing"
    /\ ROBOTS_CACHE' = call.rp[t]
    /\ call' = [call EXCEPT !.lock = release(call.lock),
                            !.result[t] = robots_allows(call.rp[t], call.url[t]),
                            !.pc[t] = "idle"]
    /\ UNCHANGED <<ACTIVE_CRAWLS, config, log_vars, req, crawl_sessions, documents, disk,
                   run, cd, cleanup_runs, fail_cause>>

\* ------------------------------------------------------------------------
\* crawl_domain, the page request and the links of the page
\* ------------------------------------------------------------------------
\* What a page can answer: its anchors in document order, and the PDF URLs
\* in its embedded-object tags, data attributes and inline handlers.
PageResponses ==
    { [links |-> <<>>, embeds |-> {}],
      [links |-> <<"about", "a.pdf#top">>, embeds |-> {}],
      [links |-> <<"download", "b.pdf">>, embeds |-> {"c.pdf?v"}],
      [links |-> <<"about", "home">>, embeds |-> {}] }

\* Lines 938-968 and the handlers 1133-1143: the page request. A non-200
\* answer, a non-HTML answer and a transport error all end the iteration.
FetchPageOn(s, responses) ==
    /\ run[s].pc = "fetch"
    /\ \E html \in BOOLEAN :
        IF html
        THEN \E resp \in responses :
                /\ cd' = [cd EXCEPT ![s].links = resp.links,
                                    ![s].embeds = resp.embeds,
                                    ![s].head_checked = 0]
                /\ run' = [run EXCEPT ![s].pc = "links"]
        ELSE /\ run' = [run EXCEPT ![s].pc = "page_loop"]
             /\ cd' = [cd EXCEPT ![s].url = "none"]
    /\ UNCHANGED <<ACTIVE_CRAWLS, config, log_vars, call, req, crawl_sessions, documents, disk,
                   ROBOTS_CACHE, cleanup_runs, fail_cause>>

FetchPage(s) == FetchPageOn(s, PageResponses)

is_priority(u) == u \in DocUrls

\* queue.insert(min(10, len(queue)), url) or queue.append(url)
Insert(q, u, near_front) ==
    IF near_front
    THEN LET pos == Min(PRIORITY_INSERT_POS, Len(q))
         IN SubSeq(q, 1, pos) \o <<u>> \o SubSeq(q, pos + 1, Len(q))
    ELSE Append(q, u)

Enqueue(q, u, diversity) == Insert(q, u, is_priority(u) \/ diversity < DIVERSE_BELOW)

\* ------------------------------------------------------------------------
\* The traversal queue on its own, in both modes
\* ------------------------------------------------------------------------
\* The values of CRAWL_MODE.
CrawlModes == {"breadth", "depth"}

\* The entries of the queue are numbered in the order they are met.
\* Lines 1048-1056: a link that is_priority or is_diverse is inserted; the
\* entries it finds behind the first ten positions are remembered.
EnqueuePriority ==
    /\ call.fn = "queue"
    /\ call.tracked = 0
    /\ call.next <= MaxQueue + MaxLinks
    /\ call' = [call EXCEPT
            !.queue = Insert(call.queue, call.next, TRUE),
            !.tracked = call.next,
            !.behind = {call.queue[i] : i \in (PRIORITY_INSERT_POS + 1)..Len(call.queue)},
            !.next = @ + 1]
    /\ UNCHANGED <<ACTIVE_CRAWLS, config, log_vars, req, crawl_sessions, documents, disk,
                   ROBOTS_CACHE, run, cd, cleanup_runs, fail_cause>>

\* Lines 1053-1059 for any later link, inserted or appended.
EnqueueLink ==
    /\ call.fn = "queue"
    /\ call.tracked # 0
    /\ call.next <= MaxQueue + MaxLinks
    /\ \E near_front \in BOOLEAN :
        call' = [call EXCEPT !.queue = Insert(call.queue, call.next, near_front),
                             !.next = @ + 1]
    /\ UNCHANGED <<ACTIVE_CRAWLS, config, log_vars, req, crawl_sessions, documents, disk,
                   ROBOTS_CACHE, run, cd, cleanup_runs, fail_cause>>

\* Lines 905-909: one entry leaves the queue at the end the mode selects.
PopUrl ==
    /\ call.fn = "queue"
    /\ call.queue # <<>>
    /\ LET i == PopIndexIn(call.mode, call.queue)
       IN call' = [call EXCEPT !.queue = Remove(call.queue, i),
                               !.popped = @ \cup {call.queue[i]}]
    /\ UNCHANGED <<ACTIVE_CRAWLS, config, log_vars, req, crawl_sessions, documents, disk,
                   ROBOTS_CACHE, run, cd, cleanup_runs, fail_cause>>

\* Lines 1030-1072: the link joins the queue unless it was visited, its
\* path prefix is exhausted or the queue is full.
WithLinkQueued(c, u, visited, limits) ==
    IF /\ same_domain(c.seed, u)
       /\ u \notin visited
       /\ c.path_diversity[path_prefix(u)] < PATH_PREFIX_CAP
       /\ Len(c.queue) < queue_ceiling(limits, c.max_pages)
    THEN [c EXCEPT !.queue = Enqueue(c.queue, u, c.path_diversity[path_prefix(u)]),
                   !.path_diversity[path_prefix(u)] = @ + 1]
    ELSE c

NeedsHead(c, u, visited) ==
    /\ ~is_pdf_url(u)
    /\ c.head_checked < MAX_HEAD_CHECKS_PER_PAGE
    /\ same_domain(c.seed, u)
    /\ u \notin visited
    /\ u \notin c.pdf_urls
    /\ is_potential_document_url(u)

\* Lines 970-1072 for one anchor that needs no request.
ProcessLinkWith(s, limits) ==
    /\ run[s].pc = "links"
    /\ cd[s].links # <<>>
    /\ LET u == Head(cd[s].links)
           c == [cd[s] EXCEPT !.links = Tail(cd[s].links)]
       IN /\ ~NeedsHead(cd[s], u, run[s].global_visited)
          /\ cd' = [cd EXCEPT ![s] =
                IF is_pdf_url(u)
                THEN IF is_valid_document(normalize_url(u))
                     THEN [c EXCEPT !.pdf_urls = @ \cup {normalize_url(u)}]
                     ELSE c
                ELSE WithLinkQueued(c, u, run[s].global_visited, limits)]
    /\ UNCHANGED <<ACTIVE_CRAWLS, config, log_vars, call, req, crawl_sessions, documents, disk,
                   ROBOTS_CACHE, run, cleanup_runs, fail_cause>>

ProcessLink(s) == ProcessLinkWith(s, Limits)

ProcessLinkSmall(s) == ProcessLinkWith(s, SmallLimits)

\* Lines 1011-1028 with check_url_is_pdf_via_head (486-504): the header-only
\* probe of a document-looking anchor; a link that is no PDF is queued.
HeadProbeWith(s, limits) ==
    /\ run[s].pc = "links"
    /\ cd[s].links # <<>>
    /\ LET u == Head(cd[s].links)
           c == [cd[s] EXCEPT !.links = Tail(cd[s].links), !.head_checked = @ + 1]
       IN /\ NeedsHead(cd[s], u, run[s].global_visited)
          /\ \E confirmed \in BOOLEAN :
                cd' = [cd EXCEPT ![s] =
                    IF confirmed
                    THEN [c EXCEPT !.pdf_urls = @ \cup {normalize_url(u)}]
                    ELSE WithLinkQueued(c, u, run[s].global_visited, limits)]
    /\ UNCHANGED <<ACTIVE_CRAWLS, config, log_vars, call, req, crawl_sessions, documents, disk,
                   ROBOTS_CACHE, run, cleanup_runs, fail_cause>>

HeadProbe(s) == HeadProbeWith(s, Limits)

HeadProbeSmall(s) == HeadProbeWith(s, SmallLimits)

\* Lines 1074-1120: the embedded PDFs of the page, taken without the filter.
FinishPage(s) ==
    /\ run[s].pc = "links"
    /\ cd[s].links = <<>>
    /\ cd' = [cd EXCEPT
            ![s].pdf_urls = @ \cup {normalize_url(e) : e \in {x \in cd[s].embeds : is_pdf_url(x)}},
            ![s].embeds = {},
            ![s].url = "none",
            ![s].head_checked = 0]
    /\ run' = [run EXCEPT ![s].pc = "page_loop"]
    /\ UNCHANGED <<ACTIVE_CRAWLS, config, log_vars, call, req, crawl_sessions, documents, disk,
                   ROBOTS_CACHE, cleanup_runs, fail_cause>>

\* ------------------------------------------------------------------------
\* Files and the documents table
\* ------------------------------------------------------------------------
Exists(path) == path \in DOMAIN disk

WithFile(d, path, digest) ==
    [p \in DOMAIN d \cup {path} |-> IF p = path THEN digest ELSE d[p]]

WithoutFiles(d, paths) == [p \in DOMAIN d \ paths |-> d[p]]

Suffixed(name, k) == IF k = 0 THEN name ELSE Append(name, k)

\* The first of name, name_1, name_2, ... that is not taken in the directory.
FreeName(dir, name) ==
    LET taken(k) == Exists([dir |-> dir, name |-> Suffixed(name, k)])
        k == CHOOSE n \in 0..Cardinality(DOMAIN disk) :
                /\ ~taken(n)
                /\ \A j \in 0..(n - 1) : taken(j)
    IN Suffixed(name, k)

\* The autoincrement key of the documents table.
NextDocId ==
    IF documents = {} THEN 1
    ELSE 1 + (CHOOSE m \in {d.id : d \in documents} : \A d \in documents : d.id <= m)

\* Document rows; the table as the data model describes it.
InsertDocument(rows, doc) == rows \cup {doc}

\* ------------------------------------------------------------------------
\* run_crawl_session, phase 2: one candidate at a time
\* ------------------------------------------------------------------------
\* Lines 1674-1719: deadline check, filter re-check, collision-free path.
DownloadLoop(s) ==
    /\ run[s].pc = "download_loop"
    /\ IF run[s].todo = {} \/ past_deadline(run[s])
       THEN run' = [run EXCEPT ![s].pc = "complete", ![s].todo = {}, ![s].expired = FALSE]
       ELSE \E u \in run[s].todo :
            IF ~is_valid_document(u)
            THEN run' = [run EXCEPT ![s].todo = @ \ {u},
                                    ![s].idx = @ + 1,
                                    ![s].filtered_count = @ + 1]
            ELSE run' = [run EXCEPT ![s].todo = @ \ {u},
                                    ![s].idx = @ + 1,
                                    ![s].pdf_url = u,
                                    ![s].local_path =
                                        [dir |-> "insurer",
                                         name |-> FreeName("insurer", <<file_name(u)>>)],
                                    ![s].pc = "download"]
    /\ UNCHANGED <<ACTIVE_CRAWLS, config, log_vars, call, req, crawl_sessions, documents, disk,
                   ROBOTS_CACHE, cd, cleanup_runs, fail_cause>>

\* Lines 1864-1871: the handler of a persistence error inside the candidate
\* loop counts the error and commits; when that commit fails too, the error
\* leaves the loop.
CandidateDbError(s) ==
    \E db_ok \in BOOLEAN :
        IF db_ok
        THEN /\ crawl_sessions' = [crawl_sessions EXCEPT ![s].errors_count = @ + 1]
             /\ run' = [run EXCEPT ![s] = NextCandidate(run[s])]
             /\ UNCHANGED fail_cause
        ELSE /\ Raise(s, "candidate_db")
             /\ UNCHANGED crawl_sessions

\* Lines 1719-1722 and 1873-1876 with download_pdf_streaming (608-756): the
\* file appears at local_path by the final rename, or there is no result.
DownloadPdf(s) ==
    /\ run[s].pc = "download"
    /\ \E result \in Hashes \cup {"none"} :
        IF result = "none"
        THEN /\ \E db_ok \in BOOLEAN :
                IF db_ok
                THEN /\ crawl_sessions' = [crawl_sessions EXCEPT ![s].errors_count = @ + 1]
                     /\ run' = [run EXCEPT ![s] = NextCandidate(run[s])]
                     /\ UNCHANGED fail_cause
                ELSE /\ Raise(s, "download_none")
                     /\ UNCHANGED crawl_sessions
             /\ UNCHANGED disk
        ELSE /\ disk' = WithFile(disk, run[s].local_path, result)
             /\ run' = [run EXCEPT ![s].file_hash = result, ![s].pc = "dedup"]
             /\ UNCHANGED <<crawl_sessions, fail_cause>>
    /\ UNCHANGED <<ACTIVE_CRAWLS, config, log_vars, call, req, documents, ROBOTS_CACHE, cd, cleanup_runs>>

\* ------------------------------------------------------------------------
\* download_pdf_streaming, statement by statement
\* ------------------------------------------------------------------------
MAX_FILE_SIZE_BYTES == 3
MAX_DOWNLOAD_TIME == 1

Byte == {1, 2}

\* What response.iter_content can yield: a block of bytes, or an empty
\* keep-alive block.
Chunks == {<<>>} \cup SeqsUpTo(Byte, 2)

\* hashlib.sha256().update(chunk): the state after absorbing the bytes of
\* the chunk in order.
RECURSIVE sha256_update(_, _)
sha256_update(h, chunk) ==
    IF chunk = <<>> THEN h
    ELSE sha256_update((3 * h + Head(chunk)) % 11, Tail(chunk))

\* hashlib.sha256(bytes).hexdigest()
sha256(bytes) == sha256_update(0, bytes)

\* '.pdf' in url.lower()
url_has_pdf(u) == u \in PdfUrls

\* The answer to the streaming GET: status, whether Content-Type or
\* Content-Disposition names a PDF or an octet stream, and the declared
\* Content-Length (0: header absent).
Answers ==
    [status : {200, 404}, pdf_header : BOOLEAN,
     content_length : {0, MAX_FILE_SIZE_BYTES, MAX_FILE_SIZE_BYTES + 1}]

\* tempfile.NamedTemporaryFile(dir=save_path.parent, suffix='.tmp')
TempPath(save_path) == [dir |-> save_path.dir, name |-> <<"tmp">>]

\* return None, or the result dictionary.
DownloadReturns(r, outcome, result) ==
    [r EXCEPT !.pc = "dl_returned",
              !.dl = [NoDownload EXCEPT !.outcome = outcome, !.result = result,
                                        !.streamed = r.dl.streamed]]

write_over(content, chunk) == chunk

\* temp_file.write(chunk): the chunk goes after what the file holds.
write(content, chunk) == content \o chunk

unlink_skipped(d, temp_path) == d

\* temp_path.unlink() where the temporary file exists.
unlink(d, temp_path) == WithoutFiles(d, {temp_path})

\* Path strings, as sequences of pieces: a separator before each component,
\* and the component "raw_evil" as the piece "raw" followed by "_evil".
Pieces(component) == IF component = "raw_evil" THEN <<"raw", "_evil">> ELSE <<component>>

RECURSIVE PathStr(_)
PathStr(components) ==
    IF components = <<>> THEN <<>>
    ELSE <<"/">> \o Pieces(Head(components)) \o PathStr(Tail(components))

\* str.startswith
startswith(a, b) == Len(b) <= Len(a) /\ SubSeq(a, 1, Len(b)) = b

\* RAW_STORAGE_DIR.resolve(), as path components.
RAW_STORAGE_DIR == <<"raw">>

\* Path.resolve() of a destination: under the storage root, in the sibling
\* directory /raw_evil, or elsewhere.
resolve(path) ==
    IF path.dir = "sibling" THEN <<"raw_evil">> \o path.name
    ELSE IF path.dir = "outside" THEN <<"etc">> \o path.name
    ELSE RAW_STORAGE_DIR \o <<path.dir>> \o path.name

\* verify_path_safety: a prefix test on the two resolved path strings;
\* False when resolving raises.
verify_path_safety(file_path, allowed_parent, resolve_ok) ==
    resolve_ok /\ startswith(PathStr(resolve(file_path)), PathStr(allowed_parent))

\* Lines 630-691: path check, request, status, content type, declared
\* length, directory and temporary file.
DownloadOpen(s) ==
    /\ run[s].pc = "download"
    /\ \E resolve_ok \in BOOLEAN, answer \in Answers, get_ok \in BOOLEAN, fs_ok \in BOOLEAN :
        LET safe == verify_path_safety(run[s].local_path, RAW_STORAGE_DIR, resolve_ok)
            early(outcome) ==
                /\ run' = [run EXCEPT ![s] = DownloadReturns(run[s], outcome, NoResult)]
                /\ UNCHANGED disk
        IN IF ~safe THEN early("unsafe")
           ELSE IF ~get_ok THEN early("exception")
           ELSE IF answer.status # 200 THEN early("status")
           ELSE IF ~answer.pdf_header /\ ~url_has_pdf(run[s].pdf_url)
           THEN early("content_type")
           ELSE IF answer.content_length > MAX_FILE_SIZE_BYTES THEN early("declared_size")
           ELSE IF ~fs_ok THEN early("exception")
           ELSE /\ disk' = WithFile(disk, TempPath(run[s].local_path), <<>>)
                /\ run' = [run EXCEPT ![s].pc = "dl_stream",
                                      ![s].dl.temp_path = TempPath(run[s].local_path)]
    /\ UNCHANGED <<ACTIVE_CRAWLS, config, log_vars, call, req, crawl_sessions, documents, ROBOTS_CACHE,
                   cd, cleanup_runs, fail_cause>>

\* Lines 696-720: one block of the stream; elapsed grows by tick.
DownloadChunk(s) ==
    /\ run[s].pc = "dl_stream"
    /\ run[s].dl.chunks < MaxChunks
    /\ \E chunk \in Chunks, tick \in 0..1 :
        LET dl == run[s].dl
            bytes_downloaded == dl.bytes_downloaded + Len(chunk)
            elapsed == dl.elapsed + tick
        IN IF chunk = <<>>
           THEN /\ run' = [run EXCEPT ![s].dl.chunks = @ + 1, ![s].dl.elapsed = elapsed]
                /\ UNCHANGED disk
           ELSE IF bytes_downloaded > MAX_FILE_SIZE_BYTES
           THEN /\ disk' = unlink(disk, dl.temp_path)
                /\ run' = [run EXCEPT ![s] = DownloadReturns(run[s], "streamed_size", NoResult)]
           ELSE IF elapsed > MAX_DOWNLOAD_TIME
           THEN /\ disk' = unlink(disk, dl.temp_path)
                /\ run' = [run EXCEPT ![s] = DownloadReturns(run[s], "time", NoResult)]
           ELSE /\ disk' = WithFile(disk, dl.temp_path, write(disk[dl.temp_path], chunk))
                /\ run' = [run EXCEPT ![s].dl.chunks = @ + 1,
                                      ![s].dl.elapsed = elapsed,
                                      ![s].dl.bytes_downloaded = bytes_downloaded,
                                      ![s].dl.sha256_hash = sha256_update(@, chunk),
                                      ![s].dl.streamed = @ \o chunk]
    /\ UNCHANGED <<ACTIVE_CRAWLS, config, log_vars, call, req, crawl_sessions, documents, ROBOTS_CACHE,
                   cd, cleanup_runs, fail_cause>>

\* Lines 737-756: the stream times out or breaks, the write fails or the
\* rename fails; each handler deletes the temporary file and returns None.
DownloadFault(s) ==
    /\ run[s].pc = "dl_stream"
    /\ disk' = IF Exists(run[s].dl.temp_path) THEN unlink(disk, run[s].dl.temp_path) ELSE disk
    /\ run' = [run EXCEPT ![s] = DownloadReturns(run[s], "exception", NoResult)]
    /\ UNCHANGED <<ACTIVE_CRAWLS, config, log_vars, call, req, crawl_sessions, documents, ROBOTS_CACHE,
                   cd, cleanup_runs, fail_cause>>

\* Lines 722-735: the stream ends, the temporary file is closed and renamed
\* onto save_path, the size and the digest are returned.
DownloadRename(s) ==
    /\ run[s].pc = "dl_stream"
    /\ LET dl == run[s].dl
       IN /\ disk' = WithFile(unlink(disk, dl.temp_path), run[s].local_path,
                              disk[dl.temp_path])
          /\ run' = [run EXCEPT ![s] =
                        DownloadReturns(run[s], "success",
                                        [ok |-> TRUE, file_size |-> dl.bytes_downloaded,
                                         file_hash |-> dl.sha256_hash])]
    /\ UNCHANGED <<ACTIVE_CRAWLS, config, log_vars, call, req, crawl_sessions, documents, ROBOTS_CACHE,
                   cd, cleanup_runs, fail_cause>>

SameHashAndUrl(s) ==
    {d \in documents : d.file_hash = run[s].file_hash /\ d.source_url = run[s].pdf_url}

\* Line 1727: the records whose digest is the digest of the fresh file.
SameHash(s) == {d \in documents : d.file_hash = run[s].file_hash}

\* Lines 1727-1729: the query for a record with the same digest fails.
DedupQueryFails(s) ==
    /\ run[s].pc = "dedup"
    /\ CandidateDbError(s)
    /\ UNCHANGED <<ACTIVE_CRAWLS, config, log_vars, call, req, documents, disk, ROBOTS_CACHE, cd,
                   cleanup_runs>>

\* Lines 1727-1731: no record has the digest.
DedupMiss(s) ==
    /\ run[s].pc = "dedup"
    /\ SameHash(s) = {}
    /\ run' = [run EXCEPT ![s].pc = "store"]
    /\ UNCHANGED <<ACTIVE_CRAWLS, config, log_vars, call, req, crawl_sessions, documents, disk,
                   ROBOTS_CACHE, cd, cleanup_runs, fail_cause>>

\* Lines 1737-1751: the record's file is on disk, the fresh copy is deleted.
SkipDuplicate(s) ==
    /\ run[s].pc = "dedup"
    /\ \E existing_doc \in SameHash(s) :
        /\ Exists(existing_doc.local_file_path)
        /\ disk' = WithoutFiles(disk, {run[s].local_path})
        /\ run' = [run EXCEPT ![s] = NextCandidate([run[s] EXCEPT !.filtered_count = @ + 1])]
    /\ UNCHANGED <<ACTIVE_CRAWLS, config, log_vars, call, req, crawl_sessions, documents, ROBOTS_CACHE,
                   cd, cleanup_runs, fail_cause>>

\* What follows the commit of a refreshed record: line 1763 increments
\* download_count, a name that is never bound, and the error leaves the loop.
AfterRefresh(s) == Raise(s, "refresh_counter")

\* Lines 1752-1768: the record's file is missing, the record takes the
\* fresh file.
RefreshRecord(s) ==
    /\ run[s].pc = "dedup"
    /\ \E existing_doc \in SameHash(s) :
        /\ ~Exists(existing_doc.local_file_path)
        /\ \E db_ok \in BOOLEAN :
            IF db_ok
            THEN /\ documents' = (documents \ {existing_doc}) \cup
                        {[existing_doc EXCEPT !.local_file_path = run[s].local_path,
                                              !.source_url = run[s].pdf_url,
                                              !.crawl_session_id = s]}
                 /\ AfterRefresh(s)
                 /\ UNCHANGED crawl_sessions
            ELSE /\ CandidateDbError(s)
                 /\ UNCHANGED documents
    /\ UNCHANGED <<ACTIVE_CRAWLS, config, log_vars, call, req, disk, ROBOTS_CACHE, cd, cleanup_runs>>

\* Lines 1848-1851: the second half of the progress bar, by candidates met.
progress_without_base(s) == Min(50, (run[s].idx * 50) \div Max(Cardinality(run[s].all_pdf_urls), 1))

Progress2(s) == 50 + Min(50, (run[s].idx * 50) \div Max(Cardinality(run[s].all_pdf_urls), 1))

\* Lines 1770-1852: classify, move the file into the category directory,
\* insert the record. A failing mkdir has no handler in the loop; a failing
\* move keeps the file where it is; a failing commit is a persistence error.
StoreDocument(s) ==
    /\ run[s].pc = "store"
    /\ \E outcome \in {"ok", "mkdir_error", "move_error", "db_error"} :
        LET local_path == run[s].local_path
            wanted == [dir |-> "policy", name |-> local_path.name]
            new_local_path == IF Exists(wanted)
                              THEN [dir |-> "policy", name |-> FreeName("policy", local_path.name)]
                              ELSE wanted
            moved == outcome # "move_error" /\ Exists(local_path)
            final_path == IF moved THEN new_local_path ELSE local_path
            moved_disk == IF moved
                          THEN WithFile(WithoutFiles(disk, {local_path}), new_local_path,
                                        disk[local_path])
                          ELSE disk
            doc == [id |-> NextDocId, file_hash |-> run[s].file_hash,
                    local_file_path |-> final_path, crawl_session_id |-> s,
                    source_url |-> run[s].pdf_url]
        IN IF outcome = "mkdir_error"
           THEN /\ Raise(s, "mkdir")
                /\ UNCHANGED <<crawl_sessions, documents, disk>>
           ELSE IF outcome = "db_error"
           THEN /\ disk' = moved_disk
                /\ \E db_ok \in BOOLEAN :
                    IF db_ok
                    THEN /\ crawl_sessions' = [crawl_sessions EXCEPT ![s].errors_count = @ + 1]
                         /\ run' = [run EXCEPT ![s] =
                                NextCandidate([run[s] EXCEPT !.downloaded_count = @ + 1])]
                         /\ UNCHANGED fail_cause
                    ELSE /\ Raise(s, "candidate_db")
                         /\ UNCHANGED crawl_sessions
                /\ UNCHANGED documents
           ELSE /\ disk' = moved_disk
                /\ documents' = InsertDocument(documents, doc)
                /\ crawl_sessions' = [crawl_sessions EXCEPT
                        ![s].pdfs_downloaded = run[s].downloaded_count + 1,
                        ![s].progress_pct = Progress2(s)]
                /\ run' = [run EXCEPT ![s] =
                        NextCandidate([run[s] EXCEPT !.downloaded_count = @ + 1])]
                /\ UNCHANGED fail_cause
    /\ UNCHANGED <<ACTIVE_CRAWLS, config, log_vars, call, req, ROBOTS_CACHE, cd, cleanup_runs>>

\* ------------------------------------------------------------------------
\* run_crawl_session: the end of the run
\* ------------------------------------------------------------------------
\* Lines 1878-1883: the terminal write of a run that got through both phases.
Complete(s) ==
    /\ run[s].pc = "complete"
    /\ \E db_ok \in BOOLEAN :
        IF db_ok
        THEN /\ crawl_sessions' = [crawl_sessions EXCEPT
                    ![s].status = "completed",
                    ![s].progress_pct = 100,
                    ![s].pdfs_filtered = run[s].filtered_count]
             /\ run' = [run EXCEPT ![s] = Leaving(run[s], "summary")]
             /\ UNCHANGED fail_cause
        ELSE /\ Raise(s, "complete_commit")
             /\ UNCHANGED crawl_sessions
    /\ UNCHANGED <<ACTIVE_CRAWLS, config, log_vars, call, req, documents, disk, ROBOTS_CACHE, cd,
                   cleanup_runs>>

\* Lines 1885-1898 and the exit of the get_db_context block: still inside
\* the try, the committed row is read back for the duration and the handle
\* is released; an error here reaches the handlers like any other.
Summary(s) ==
    /\ run[s].pc = "summary"
    /\ \E db_ok \in BOOLEAN :
        IF db_ok
        THEN run' = [run EXCEPT ![s].pc = "finally"] /\ UNCHANGED fail_cause
        ELSE Raise(s, "summary")
    /\ UNCHANGED <<ACTIVE_CRAWLS, config, log_vars, call, req, crawl_sessions, documents, disk,
                   ROBOTS_CACHE, cd, cleanup_runs>>

\* The row after _mark_crawl_failed's write (lines 1508-1511).
MarkedFailed(row) == [row EXCEPT !.status = "failed", !.errors_count = @ + 1]

\* Lines 1494-1521, called from the handlers at 1900-1912: a best-effort
\* write on a fresh handle; a missing row or a failing write is only logged.
MarkCrawlFailed(s) ==
    /\ run[s].pc = "except"
    /\ \E db_ok \in BOOLEAN :
        crawl_sessions' =
            IF db_ok /\ crawl_sessions[s].status # "absent"
            THEN [crawl_sessions EXCEPT ![s] = MarkedFailed(crawl_sessions[s])]
            ELSE crawl_sessions
    /\ run' = [run EXCEPT ![s].pc = "finally"]
    /\ UNCHANGED <<ACTIVE_CRAWLS, config, log_vars, call, req, documents, disk, ROBOTS_CACHE, cd,
                   cleanup_runs, fail_cause>>

\* Lines 1914-1933: the finally block.
Finally(s) ==
    /\ run[s].pc = "finally"
    /\ run' = [run EXCEPT ![s].pc = "done",
                          ![s].http = IF @ = "open" THEN "closed" ELSE @]
    /\ ACTIVE_CRAWLS' = unregister_active_crawl(s)
    /\ cleanup_runs' = [cleanup_runs EXCEPT ![s] = @ + 1]
    /\ fail_cause' = [fail_cause EXCEPT ![s] = "none"]
    /\ UNCHANGED <<config, log_vars, call, req, crawl_sessions, documents, disk, ROBOTS_CACHE, cd>>

\* ------------------------------------------------------------------------
\* delete_crawl (crawl_router.py 284-339): refused for a running session;
\* otherwise the files of its documents are removed, then the row and, by
\* cascade, its documents; a failing delete is rolled back, the files stay
\* removed.
\* ------------------------------------------------------------------------
\* The answer of the handler, kept in call when the request is observed.
Respond(respond, s, code) ==
    call' = IF respond
            THEN [fn |-> "delete_crawl", crawl_id |-> s, status_code |-> code]
            ELSE call

\* The handler after its checks: the files of the session's documents are
\* unlinked, then the session row and with it the document rows are deleted
\* and committed, or the commit fails and is rolled back.
DeleteSessionData(s, respond) ==
    LET docs == {d \in documents : d.crawl_session_id = s}
    IN /\ disk' = WithoutFiles(disk, {d.local_file_path : d \in docs})
       /\ \E db_ok \in BOOLEAN :
            IF db_ok
            THEN /\ crawl_sessions' = [crawl_sessions EXCEPT ![s] = NoRow]
                 /\ documents' = documents \ docs
                 /\ Respond(respond, s, 200)
            ELSE /\ UNCHANGED <<crawl_sessions, documents>>
                 /\ Respond(respond, s, 500)

DeleteCrawlUnguarded(s, respond) ==
    /\ IF crawl_sessions[s].status = "absent"
       THEN Respond(respond, s, 404) /\ UNCHANGED <<crawl_sessions, documents, disk>>
       ELSE DeleteSessionData(s, respond)
    /\ UNCHANGED <<ACTIVE_CRAWLS, config, log_vars, req, ROBOTS_CACHE, run, cd, cleanup_runs, fail_cause>>

\* delete_crawl: 404 for an unknown session, 409 for a running one.
DeleteCrawlOn(s, respond) ==
    /\ IF crawl_sessions[s].status = "absent"
       THEN Respond(respond, s, 404) /\ UNCHANGED <<crawl_sessions, documents, disk>>
       ELSE IF crawl_sessions[s].status = "running"
       THEN Respond(respond, s, 409) /\ UNCHANGED <<crawl_sessions, documents, disk>>
       ELSE DeleteSessionData(s, respond)
    /\ UNCHANGED <<ACTIVE_CRAWLS, config, log_vars, req, ROBOTS_CACHE, run, cd, cleanup_runs, fail_cause>>

DeleteCrawl(s) == DeleteCrawlOn(s, FALSE)

\* The same request with its answer observed.
DeleteCrawlAnswered(s) == DeleteCrawlOn(s, TRUE)

\* ------------------------------------------------------------------------
\* Specifications
\* ------------------------------------------------------------------------
SeedLists == SeqsUpTo({"home", "a.pdf"}, MaxSeeds)

NoRequest == [seed_urls |-> <<>>, max_pages |-> 0, max_minutes |-> 0]

\* The sessions of S have a start request, the others none.
Requests(S) == [s \in Sessions |-> Request(IF s \in S THEN "idle" ELSE "none")]

\* One session from its start request to the end of its run, on a store
\* that may hold a record of an earlier session.
Init ==
    /\ InitCommon
    /\ \E seeds \in SeedLists, pages \in 1..MaxPagesIn :
        config = [s \in Sessions |->
                    IF s = 1 THEN [seed_urls |-> seeds, max_pages |-> pages, max_minutes |-> 1]
                    ELSE NoRequest]
    /\ req = Requests({1})
    /\ documents \in {{}, {LegacyDoc}}
    /\ disk = <<>>

Step(s) ==
    \/ ValidateRequest(s)
    \/ AdmissionCheck(s)
    \/ CreateAndSchedule(s)
    \/ Register(s)
    \/ OpenSession(s)
    \/ DeadlinePasses(s)
    \/ SeedLoop(s)
    \/ CrawlDirectPdf(s)
    \/ SitemapProbe(s)
    \/ PageLoop(s)
    \/ FetchPage(s)
    \/ ProcessLink(s)
    \/ HeadProbe(s)
    \/ FinishPage(s)
    \/ SeedDone(s)
    \/ DownloadLoop(s)
    \/ DownloadPdf(s)
    \/ DedupQueryFails(s)
    \/ DedupMiss(s)
    \/ SkipDuplicate(s)
    \/ RefreshRecord(s)
    \/ StoreDocument(s)
    \/ Complete(s)
    \/ Summary(s)
    \/ MarkCrawlFailed(s)
    \/ Finally(s)
    \/ DeleteCrawl(s)

Next == \E s \in Sessions : Step(s)

Spec == Init /\ [][Next]_vars

\* One start request more than the ceiling admits, all at once; each names
\* one seed that is a PDF URL the filter rejects, so that a run has nothing
\* to download.
Requesters == 1..(MAX_CONCURRENT_CRAWLS + 1)

InitAdmit ==
    /\ InitCommon
    /\ config = [s \in Sessions |->
                    IF s \in Requesters
                    THEN [seed_urls |-> <<"c.pdf?v">>, max_pages |-> 1, max_minutes |-> 1]
                    ELSE NoRequest]
    /\ req = Requests(Requesters)
    /\ documents = {}
    /\ disk = <<>>

StepAdmit(s) ==
    \/ ValidateRequest(s)
    \/ AdmissionCheck(s)
    \/ CreateAndSchedule(s)
    \/ Register(s)
    \/ OpenSession(s)
    \/ SeedLoop(s)
    \/ CrawlDirectPdf(s)
    \/ SeedDone(s)
    \/ DownloadLoop(s)
    \/ Complete(s)
    \/ Summary(s)
    \/ MarkCrawlFailed(s)
    \/ Finally(s)

NextAdmit == \E s \in Sessions : StepAdmit(s)

SpecAdmit == InitAdmit /\ [][NextAdmit]_vars

\* Two sessions, as many as the ceiling admits, each with one PDF seed of
\* its own on an empty store.
InitDedup ==
    /\ InitCommon
    /\ config = [s \in Sessions |->
                    IF s = 1 THEN [seed_urls |-> <<"a.pdf">>, max_pages |-> 1, max_minutes |-> 1]
                    ELSE IF s = 2
                    THEN [seed_urls |-> <<"b.pdf">>, max_pages |-> 1, max_minutes |-> 1]
                    ELSE NoRequest]
    /\ req = Requests({1, 2})
    /\ documents = {}
    /\ disk = <<>>

StepDedup(s) ==
    \/ ValidateRequest(s)
    \/ AdmissionCheck(s)
    \/ CreateAndSchedule(s)
    \/ Register(s)
    \/ OpenSession(s)
    \/ SeedLoop(s)
    \/ CrawlDirectPdf(s)
    \/ SeedDone(s)
    \/ DownloadLoop(s)
    \/ DownloadPdf(s)
    \/ DedupQueryFails(s)
    \/ DedupMiss(s)
    \/ SkipDuplicate(s)
    \/ StoreDocument(s)
    \/ Complete(s)
    \/ Summary(s)
    \/ MarkCrawlFailed(s)
    \/ Finally(s)

NextDedup == \E s \in Sessions : StepDedup(s)

SpecDedup == InitDedup /\ [][NextDedup]_vars

\* Two concurrent sessions whose candidates have the same file name, so
\* that both can find the same destination path free.
InitSamePath ==
    /\ InitCommon
    /\ config = [s \in Sessions |->
                    IF s \in {1, 2}
                    THEN [seed_urls |-> <<"a.pdf">>, max_pages |-> 1, max_minutes |-> 1]
                    ELSE NoRequest]
    /\ req = Requests({1, 2})
    /\ documents = {}
    /\ disk = <<>>

SpecSamePath == InitSamePath /\ [][NextDedup]_vars

\* One start request with any body: seed lists that may be empty or hold
\* strings that are no http(s) URL, budgets inside and outside the accepted
\* ranges and above the absolute ceilings.
IntakeSeedLists == {<<>>} \cup SeqsUpTo({"home"} \cup OtherSeeds, MaxSeeds)

IntakePages == {0, 1, MAX_PAGES_ABSOLUTE + 1, MAX_PAGES_REQUEST, MAX_PAGES_REQUEST + 1}

IntakeMinutes == {0, 1, MAX_MINUTES_ABSOLUTE + 1, MAX_MINUTES_REQUEST + 1}

InitIntake ==
    /\ InitCommon
    /\ \E seeds \in IntakeSeedLists, pages \in IntakePages, minutes \in IntakeMinutes :
        config = [s \in Sessions |->
                    IF s = 1
                    THEN [seed_urls |-> seeds, max_pages |-> pages, max_minutes |-> minutes]
                    ELSE NoRequest]
    /\ req = Requests({1})
    /\ documents = {}
    /\ disk = <<>>

StepIntake(s) ==
    \/ ValidateRequest(s)
    \/ AdmissionCheck(s)
    \/ CreateAndSchedule(s)
    \/ Register(s)
    \/ OpenSession(s)

NextIntake == \E s \in Sessions : StepIntake(s)

SpecIntake == InitIntake /\ [][NextIntake]_vars

\* One session whose single seed is a PDF URL, on an empty store and with
\* a deadline that is not reached.
InitSeed ==
    /\ InitCommon
    /\ \E seed \in PdfUrls, pages \in 1..MaxPagesIn :
        config = [s \in Sessions |->
                    IF s = 1
                    THEN [seed_urls |-> <<seed>>, max_pages |-> pages, max_minutes |-> 1]
                    ELSE NoRequest]
    /\ req = Requests({1})
    /\ documents = {}
    /\ disk = <<>>

StepSeed(s) ==
    \/ ValidateRequest(s)
    \/ AdmissionCheck(s)
    \/ CreateAndSchedule(s)
    \/ Register(s)
    \/ OpenSession(s)
    \/ SeedLoop(s)
    \/ CrawlDirectPdf(s)
    \/ SeedDone(s)
    \/ DownloadLoop(s)
    \/ DownloadPdf(s)
    \/ DedupQueryFails(s)
    \/ DedupMiss(s)
    \/ StoreDocument(s)
    \/ Complete(s)
    \/ Summary(s)
    \/ MarkCrawlFailed(s)
    \/ Finally(s)

NextSeed == \E s \in Sessions : StepSeed(s)

SpecSeed == InitSeed /\ [][NextSeed]_vars

\* One session with two PDF seeds whose deadline may pass at any point of
\* its two loops; the worker thread of the session keeps running.
InitDeadline ==
    /\ InitCommon
    /\ \E pages \in 1..MaxPagesIn :
        config = [s \in Sessions |->
                    IF s = 1
                    THEN [seed_urls |-> <<"a.pdf", "b.pdf">>, max_pages |-> pages,
                          max_minutes |-> 1]
                    ELSE NoRequest]
    /\ req = Requests({1})
    /\ documents = {}
    /\ disk = <<>>

StepDeadline(s) ==
    \/ StepSeed(s)
    \/ SkipDuplicate(s)
    \/ DeadlinePasses(s)

NextDeadline == \E s \in Sessions : StepDeadline(s)

SpecDeadline == InitDeadline /\ [][NextDeadline]_vars /\ WF_vars(NextDeadline)

\* One session with a page seed on a site whose robots file disallows every
\* path; the process-wide cache already holds that file from an earlier
\* session on the same origin.
InitRobots ==
    /\ InitLogs
    /\ call = NoCall
    /\ \E pages \in 1..MaxPagesIn :
        config = [s \in Sessions |->
                    IF s = 1
                    THEN [seed_urls |-> <<"home">>, max_pages |-> pages, max_minutes |-> 1]
                    ELSE NoRequest]
    /\ req = Requests({1})
    /\ ACTIVE_CRAWLS = <<>>
    /\ crawl_sessions = [s \in Sessions |-> NoRow]
    /\ ROBOTS_CACHE = "deny_all"
    /\ run = [s \in Sessions |-> RunInit]
    /\ cd = [s \in Sessions |-> CdInit]
    /\ cleanup_runs = [s \in Sessions |-> 0]
    /\ fail_cause = [s \in Sessions |-> "none"]
    /\ documents = {}
    /\ disk = <<>>

StepRobots(s) ==
    \/ ValidateRequest(s)
    \/ AdmissionCheck(s)
    \/ CreateAndSchedule(s)
    \/ Register(s)
    \/ OpenSession(s)
    \/ SeedLoop(s)
    \/ SitemapProbe(s)
    \/ PageLoop(s)
    \/ SeedDone(s)
    \/ DownloadLoop(s)
    \/ DownloadPdf(s)
    \/ DedupQueryFails(s)
    \/ DedupMiss(s)
    \/ SkipDuplicate(s)
    \/ StoreDocument(s)
    \/ Complete(s)
    \/ Summary(s)
    \/ MarkCrawlFailed(s)
    \/ Finally(s)

NextRobots == \E s \in Sessions : StepRobots(s)

SpecRobots == InitRobots /\ [][NextRobots]_vars

\* One session with a page seed on a site whose robots file has not been
\* requested yet and can answer in every way.
InitCanFetch ==
    /\ InitCommon
    /\ \E pages \in 1..MaxPagesIn :
        config = [s \in Sessions |->
                    IF s = 1
                    THEN [seed_urls |-> <<"home">>, max_pages |-> pages, max_minutes |-> 1]
                    ELSE NoRequest]
    /\ req = Requests({1})
    /\ documents = {}
    /\ disk = <<>>

StepCanFetch(s) ==
    \/ ValidateRequest(s)
    \/ AdmissionCheck(s)
    \/ CreateAndSchedule(s)
    \/ Register(s)
    \/ OpenSession(s)
    \/ SeedLoop(s)
    \/ SitemapProbe(s)
    \/ PageLoopAnyRobots(s)
    \/ FetchPage(s)
    \/ ProcessLink(s)
    \/ HeadProbe(s)
    \/ FinishPage(s)
    \/ SeedDone(s)
    \/ DownloadLoop(s)
    \/ DownloadPdf(s)
    \/ DedupQueryFails(s)
    \/ DedupMiss(s)
    \/ SkipDuplicate(s)
    \/ StoreDocument(s)
    \/ Complete(s)
    \/ Summary(s)
    \/ MarkCrawlFailed(s)
    \/ Finally(s)

NextCanFetch == \E s \in Sessions : StepCanFetch(s)

SpecCanFetch == InitCanFetch /\ [][NextCanFetch]_vars

\* download_pdf_streaming alone: one call for a URL with or without ".pdf"
\* in it and a free destination, the server's answer drawn at each step.
InitDownload ==
    /\ InitLogs
    /\ call = NoCall
    /\ ACTIVE_CRAWLS = <<>>
    /\ crawl_sessions = [s \in Sessions |-> NoRow]
    /\ ROBOTS_CACHE = "miss"
    /\ cd = [s \in Sessions |-> CdInit]
    /\ cleanup_runs = [s \in Sessions |-> 0]
    /\ fail_cause = [s \in Sessions |-> "none"]
    /\ config = [s \in Sessions |-> NoRequest]
    /\ req = Requests({})
    /\ documents = {}
    /\ disk = <<>>
    /\ \E url \in {"a.pdf", "download"}, dir \in {"insurer", "sibling", "outside"} :
        run = [s \in Sessions |->
                IF s = 1
                THEN [RunInit EXCEPT !.pc = "download", !.pdf_url = url,
                                     !.local_path = [dir |-> dir,
                                                     name |-> <<file_name(url)>>]]
                ELSE RunInit]

StepDownload(s) ==
    \/ DownloadOpen(s)
    \/ DownloadChunk(s)
    \/ DownloadFault(s)
    \/ DownloadRename(s)

NextDownload == \E s \in Sessions : StepDownload(s)

SpecDownload == InitDownload /\ [][NextDownload]_vars

\* The discovery phase of two sessions on one site: its home page links the
\* about page and a.pdf, its sitemap lists b.pdf only. Session 1 crawls the
\* site as it is, session 2 after the sitemap was taken down.
SitePages == Cardinality(PageUrls)

SitePage(url) ==
    IF url = "home" THEN [links |-> <<"about", "a.pdf#top">>, embeds |-> {}]
    ELSE [links |-> <<>>, embeds |-> {}]

SiteSitemap(s) == IF s = 1 THEN {"b.pdf"} ELSE {}

SitemapProbeSite(s) == SitemapProbeOn(s, {SiteSitemap(s)})

PageLoopSite(s) == PageLoopOn(s, {cache_after_read("raises")})

FetchPageSite(s) == FetchPageOn(s, {SitePage(cd[s].url)})

InitSitemap ==
    /\ InitCommon
    /\ \E pages \in 1..MaxPagesIn :
        config = [s \in Sessions |->
                    IF s \in 1..2
                    THEN [seed_urls |-> <<"home">>, max_pages |-> pages, max_minutes |-> 1]
                    ELSE NoRequest]
    /\ req = Requests(1..2)
    /\ documents = {}
    /\ disk = <<>>

StepSitemap(s) ==
    \/ ValidateRequest(s)
    \/ AdmissionCheck(s)
    \/ CreateAndSchedule(s)
    \/ Register(s)
    \/ OpenSession(s)
    \/ SeedLoop(s)
    \/ SitemapProbeSite(s)
    \/ PageLoopSite(s)
    \/ FetchPageSite(s)
    \/ ProcessLink(s)
    \/ FinishPage(s)
    \/ SeedDone(s)

NextSitemap == \E s \in Sessions : StepSitemap(s)

SpecSitemap == InitSitemap /\ [][NextSitemap]_vars

\* No session, no request, an empty store: the state in which a pure
\* function is called on its own.
InitIdle ==
    /\ InitLogs
    /\ InitSessions
    /\ config = [s \in Sessions |-> NoRequest]
    /\ req = Requests({})
    /\ documents = {}
    /\ disk = <<>>

\* normalize_url applied to a URL and then to its own result.
InitNormalize ==
    /\ InitIdle
    /\ \E url \in UrlTexts :
        call = [fn |-> "normalize_url", url |-> url, calls |-> 0, once |-> <<>>, twice |-> <<>>]

NextNormalize == NormalizeOnce \/ NormalizeAgain

SpecNormalize == InitNormalize /\ [][NextNormalize]_vars

\* same_domain applied to a pair of hosts.
InitSameDomain ==
    /\ InitIdle
    /\ \E seed \in Netlocs, candidate \in Netlocs :
        call = [fn |-> "same_domain", seed |-> seed, candidate |-> candidate, calls |-> 0,
                result |-> FALSE, swapped |-> FALSE, self |-> FALSE]

NextSameDomain == SameDomain

SpecSameDomain == InitSameDomain /\ [][NextSameDomain]_vars

\* classify_document applied to one input.
InitClassify ==
    /\ InitIdle
    /\ \E in \in ClassifyInputs :
        call = [fn |-> "classify_document", in |-> in, calls |-> 0, result |-> NoClassification]

NextClassify == ClassifyDocument

SpecClassify == InitClassify /\ [][NextClassify]_vars

\* A queue of waiting entries in either mode, one inserted link, later
\* links and pops.
InitQueue ==
    /\ InitIdle
    /\ \E mode \in CrawlModes, n \in 0..MaxQueue :
        call = [fn |-> "queue", mode |-> mode, queue |-> [i \in 1..n |-> i], next |-> n + 1,
                tracked |-> 0, behind |-> {}, popped |-> {}]

NextQueue == EnqueuePriority \/ EnqueueLink \/ PopUrl

SpecQueue == InitQueue /\ [][NextQueue]_vars

\* A session with one PDF seed and delete requests whose answers are
\* observed.
NextDelete == \E s \in Sessions : StepSeed(s) \/ DeleteCrawlAnswered(s)

SpecDelete == InitSeed /\ [][NextDelete]_vars

\* Concurrent calls of can_fetch on an empty cache.
InitRobotsCache ==
    /\ InitIdle
    /\ call = [fn |-> "can_fetch",
               lock |-> NoHolder,
               fetches |-> 0,
               pc |-> [t \in Checkers |-> "idle"],
               calls |-> [t \in Checkers |-> 0],
               url |-> [t \in Checkers |-> "none"],
               rp |-> [t \in Checkers |-> "miss"],
               fetched |-> [t \in Checkers |-> FALSE],
               result |-> [t \in Checkers |-> TRUE]]

NextRobotsCache ==
    \E t \in Checkers :
        \/ CanFetchCall(t)
        \/ AcquireCacheLock(t)
        \/ CheckCache(t)
        \/ ReadRobots(t)
        \/ StoreRobots(t)

SpecRobotsCache == InitRobotsCache /\ [][NextRobotsCache]_vars

\* One session with a page seed whose deadline can pass at any time; a
\* thread that can take a step takes one.
StepCrawl(s) ==
    \/ ValidateRequest(s)
    \/ AdmissionCheck(s)
    \/ CreateAndSchedule(s)
    \/ Register(s)
    \/ OpenSession(s)
    \/ DeadlinePasses(s)
    \/ SeedLoop(s)
    \/ SitemapProbe(s)
    \/ PageLoop(s)
    \/ FetchPage(s)
    \/ ProcessLink(s)
    \/ HeadProbe(s)
    \/ FinishPage(s)
    \/ SeedDone(s)
    \/ DownloadLoop(s)
    \/ DownloadPdf(s)
    \/ DedupQueryFails(s)
    \/ DedupMiss(s)
    \/ SkipDuplicate(s)
    \/ StoreDocument(s)
    \/ Complete(s)
    \/ Summary(s)
    \/ MarkCrawlFailed(s)
    \/ Finally(s)

NextCrawl == \E s \in Sessions : StepCrawl(s)

SpecCrawlFair == InitCanFetch /\ [][NextCrawl]_vars /\ WF_vars(NextCrawl)

\* One session over one or two page seeds on a site whose home page links
\* to its other pages, crawled under the scaled memory limits.
LinkedPages == {[links |-> <<"about", "download">>, embeds |-> {}],
                [links |-> <<"home", "about">>, embeds |-> {}]}

FetchPageLinked(s) == FetchPageOn(s, LinkedPages)

SitemapProbeEmpty(s) == SitemapProbeOn(s, {{}})

InitCeiling ==
    /\ InitCommon
    /\ \E seeds \in {<<"home">>, <<"home", "about">>}, pages \in 1..MaxPagesIn :
        config = [s \in Sessions |->
                    IF s = 1 THEN [seed_urls |-> seeds, max_pages |-> pages, max_minutes |-> 1]
                    ELSE NoRequest]
    /\ req = Requests({1})
    /\ documents = {}
    /\ disk = <<>>

StepCeiling(s) ==
    \/ ValidateRequest(s)
    \/ AdmissionCheck(s)
    \/ CreateAndSchedule(s)
    \/ Register(s)
    \/ OpenSession(s)
    \/ SeedLoop(s)
    \/ SitemapProbeEmpty(s)
    \/ PageLoopSmall(s)
    \/ FetchPageLinked(s)
    \/ ProcessLinkSmall(s)
    \/ HeadProbeSmall(s)
    \/ FinishPage(s)
    \/ SeedDone(s)

NextCeiling == \E s \in Sessions : StepCeiling(s)

SpecCeiling == InitCeiling /\ [][NextCeiling]_vars

\* The log store alone: sessions append in any order while a reader tails
\* the log of session 1.
InitLog ==
    /\ InitCommon
    /\ config = [s \in Sessions |-> NoRequest]
    /\ req = Requests({})
    /\ documents = {}
    /\ disk = <<>>

NextLog == \E s \in Sessions : CrawlLog(s) \/ GetCrawlLogs(s)

SpecLog == InitLog /\ [][NextLog]_vars

\* The registry alone, called in any order by callers that hold a session
\* id: a caller is at "open" from its register call to its unregister call.
InitRegistry ==
    /\ InitCommon
    /\ config = [s \in Sessions |-> NoRequest]
    /\ req = Requests({})
    /\ documents = {}
    /\ disk = <<>>

RegisterCall(s) ==
    /\ utcnow <= MaxClock
    /\ ACTIVE_CRAWLS' = register_active_crawl(s)
    /\ run' = [run EXCEPT ![s].pc = "open"]
    /\ UNCHANGED <<config, log_vars, call, req, crawl_sessions, documents, disk, ROBOTS_CACHE, cd,
                   cleanup_runs, fail_cause>>

UnregisterCall(s) ==
    /\ ACTIVE_CRAWLS' = unregister_active_crawl(s)
    /\ run' = [run EXCEPT ![s].pc = "done"]
    /\ UNCHANGED <<config, log_vars, call, req, crawl_sessions, documents, disk, ROBOTS_CACHE, cd,
                   cleanup_runs, fail_cause>>

NextRegistry == \E s \in Sessions : RegisterCall(s) \/ UnregisterCall(s)

SpecRegistry == InitRegistry /\ [][NextRegistry]_vars

\* ------------------------------------------------------------------------
\* Properties
\* ------------------------------------------------------------------------
\* C1: with start requests arriving concurrently, the number of sessions
\* registered as active never exceeds MAX_CONCURRENT_CRAWLS.
C1_RegistryWithinCeiling == get_active_crawl_count <= MAX_CONCURRENT_CRAWLS

\* C2: no step of run_crawl_session or of _mark_crawl_failed changes the
\* status of a session that is already completed or failed.
C2_TerminalStatusKept ==
    [][\A s \in Sessions :
        (crawl_sessions[s].status \in {"completed", "failed"} /\ run'[s] # run[s])
            => crawl_sessions'[s].status = crawl_sessions[s].status]_vars

\* C3: a session that its run put in running is completed or failed when
\* the run has ended, whatever failed on the way.
C3_RunEndsTerminal ==
    \A s \in Sessions : run[s].pc = "done" => crawl_sessions[s].status # "running"

\* C4: on every exit path the cleanup runs exactly once: never twice, not
\* before the run leaves the try block, and once the run has ended the
\* session is out of the registry and its HTTP client, if created, is closed.
C4_CleanupOnce ==
    \A s \in Sessions :
        /\ cleanup_runs[s] = IF run[s].pc = "done" THEN 1 ELSE 0
        /\ run[s].pc = "done" => s \notin DOMAIN ACTIVE_CRAWLS /\ run[s].http # "open"
        /\ run[s].http = "closed" => run[s].pc = "done"

\* A run that opened its HTTP client and was marked failed has ended.
C4_Witness ==
    \E s \in Sessions :
        /\ run[s].pc = "done"
        /\ run[s].http = "closed"
        /\ crawl_sessions[s].status = "failed"

\* C5: a storage error confined to one candidate never takes the run out of
\* the candidate loop to the handlers that end the session failed.
C5_CandidateFailureContinues ==
    \A s \in Sessions : run[s].pc = "except" => fail_cause[s] # "mkdir"

\* C6: within one session, no two Document records with the same digest
\* reference two different files that both exist on disk.
C6_OneFilePerDigest ==
    \A d1, d2 \in documents :
        (d1.file_hash = d2.file_hash /\ Exists(d1.local_file_path) /\ Exists(d2.local_file_path))
            => d1.local_file_path = d2.local_file_path

\* A session with the two candidates a.pdf and b.pdf has stored the first
\* and skipped the second as a duplicate of it.
C6_Witness ==
    \E s \in Sessions :
        /\ run[s].pc = "download_loop"
        /\ run[s].all_pdf_urls = {"a.pdf", "b.pdf"}
        /\ run[s].idx = 2
        /\ run[s].filtered_count = 1
        /\ \E d \in documents : d.crawl_session_id = s /\ Exists(d.local_file_path)

\* C7: in no interleaving of two concurrent sessions do two Document records
\* of different sessions with the same file_hash reference two different
\* files that both exist on disk.
C7_AtomicCheckThenInsert ==
    \A s, t \in Sessions : \A d1, d2 \in documents :
        (/\ d1.crawl_session_id = s
         /\ d2.crawl_session_id = t
         /\ s # t
         /\ d1.file_hash = d2.file_hash
         /\ d1.local_file_path # d2.local_file_path)
            => ~(Exists(d1.local_file_path) /\ Exists(d2.local_file_path))

\* C8: the step that refreshes a record whose file is missing goes on to the
\* remaining candidates.
C8_RefreshThenContinue ==
    [][\A s \in Sessions :
        (run[s].pc = "dedup" /\ documents' # documents) => run'[s].pc = "download_loop"]_vars

\* C9: after every seed, pages_scanned and the running total it is written
\* from never exceed the session's max_pages.
C9_PagesWithinBudget ==
    \A s \in Sessions :
        /\ crawl_sessions[s].pages_scanned <= crawl_sessions[s].max_pages
        /\ crawl_sessions[s].status = "running" =>
                run[s].total_pages <= crawl_sessions[s].max_pages

\* Two seeds were processed and together used up the whole budget.
C9_Witness ==
    \E s \in Sessions :
        /\ run[s].pc = "seed_loop"
        /\ run[s].idx = 2
        /\ crawl_sessions[s].max_pages = 2
        /\ crawl_sessions[s].pages_scanned = 2

\* C11: can_start_crawl returns false exactly where the active count equals
\* the ceiling, and true exactly where the active count is below it.
C11_RefusesExactlyAtCeiling ==
    /\ (~can_start_crawl) <=> (get_active_crawl_count = MAX_CONCURRENT_CRAWLS)
    /\ can_start_crawl <=> (get_active_crawl_count < MAX_CONCURRENT_CRAWLS)

Registered == {s \in Sessions : run[s].pc = "open"}

\* C12: under any interleaving of register and unregister calls the active
\* count is the number of distinct ids registered and not yet unregistered,
\* and it is 0 once every caller has unregistered.
C12_CountIsRegistered ==
    /\ DOMAIN ACTIVE_CRAWLS = Registered
    /\ get_active_crawl_count = Cardinality(Registered)
    /\ (\A s \in Sessions : run[s].pc = "done") => get_active_crawl_count = 0

\* More ids are registered than the ceiling, after one of them was
\* registered again and another was unregistered twice.
C12_Witness ==
    /\ Cardinality(Registered) > MAX_CONCURRENT_CRAWLS
    /\ \E s \in Registered : ACTIVE_CRAWLS[s] = MaxClock

\* C13: a start request checked while the registry is at capacity is
\* rejected with the oldest active session as the reason, the step changes
\* neither the registry nor any session record or run, and a rejected
\* request never gets a record or a run afterwards.
C13_RejectedAtCapacity ==
    [][\A s \in Sessions :
        /\ (AdmissionCheck(s) /\ get_active_crawl_count >= MAX_CONCURRENT_CRAWLS) =>
                /\ req'[s].state = "rejected"
                /\ req'[s].reason \in DOMAIN ACTIVE_CRAWLS
                /\ \A k \in DOMAIN ACTIVE_CRAWLS :
                        ACTIVE_CRAWLS[req'[s].reason] <= ACTIVE_CRAWLS[k]
                /\ UNCHANGED <<ACTIVE_CRAWLS, crawl_sessions, run>>
        /\ req[s].state = "rejected" =>
                /\ req'[s] = req[s]
                /\ crawl_sessions'[s].status = "absent"
                /\ run'[s].pc = "none"]_vars

\* A request was rejected at capacity and names a session still active.
C13_Witness ==
    \E s \in Sessions :
        /\ req[s].state = "rejected"
        /\ req[s].reason \in DOMAIN ACTIVE_CRAWLS
        /\ get_active_crawl_count = MAX_CONCURRENT_CRAWLS

\* An absolute http(s) URL: the http or https scheme and a host.
is_absolute_http_url(u) == u \in Urls

\* What the claim counts as a request to reject.
unacceptable(c) ==
    \/ c.seed_urls = <<>>
    \/ \E i \in 1..Len(c.seed_urls) : ~is_absolute_http_url(c.seed_urls[i])
    \/ c.max_pages < 1
    \/ c.max_pages > MAX_PAGES_REQUEST

\* C14: a request with no seed URLs, with a seed that is no absolute
\* http(s) URL or with max_pages out of range is rejected by the validation
\* and never gets a session record or a run; a stored max_pages and
\* max_minutes never exceed the absolute ceilings.
C14_IntakeValidates ==
    \A s \in Sessions :
        /\ (unacceptable(config[s]) /\ req[s].state \notin {"none", "idle"}) =>
                /\ req[s].state = "invalid"
                /\ crawl_sessions[s].status = "absent"
                /\ run[s].pc = "none"
        /\ crawl_sessions[s].max_pages <= MAX_PAGES_ABSOLUTE
        /\ crawl_sessions[s].max_minutes <= MAX_MINUTES_ABSOLUTE

\* C15: a session whose single seed is a PDF URL, by its path or by its
\* query string, ends completed with pages_scanned = 1 and pdfs_found = 1.
C15_DirectPdfSeed ==
    \A s \in Sessions :
        (/\ crawl_sessions[s].status = "completed"
         /\ Len(config[s].seed_urls) = 1
         /\ is_pdf_url(config[s].seed_urls[1]))
            => crawl_sessions[s].pages_scanned = 1 /\ crawl_sessions[s].pdfs_found = 1

\* C16: a session whose seed's robots file disallows all paths ends
\* completed with pages_scanned = 0 and errors_count = 0, whatever the
\* sitemap paths serve.
C16_RobotsDenyAll ==
    \A s \in Sessions :
        (/\ crawl_sessions[s].status = "completed"
         /\ CRAWL_RESPECT_ROBOTS
         /\ ROBOTS_CACHE = "deny_all"
         /\ \A i \in 1..Len(config[s].seed_urls) : ~is_pdf_url(config[s].seed_urls[i]))
            => crawl_sessions[s].pages_scanned = 0 /\ crawl_sessions[s].errors_count = 0

\* The URLs a session has in hand: its seed, the anchors and embedded URLs
\* of the page being processed, and its candidates before and after the
\* re-check.
UrlsMet(s) ==
    ({cd[s].seed} \cup {cd[s].links[i] : i \in 1..Len(cd[s].links)} \cup cd[s].embeds
        \cup cd[s].pdf_urls \cup run[s].all_pdf_urls \cup run[s].todo) \cap Urls

\* C17: the candidate filter never excludes a PDF: every URL for which
\* is_pdf_url is true is accepted by is_valid_document, at discovery and at
\* the re-check before download.
C17_FilterKeepsPdfs ==
    \A s \in Sessions : \A u \in UrlsMet(s) :
        is_pdf_url(u) => is_valid_document(normalize_url(u))

\* The cache entries left by a robots file that could not be fetched.
RobotsProblems == {"absent", "status_403", "status_404", "status_503"}

\* C18: can_fetch fails open: when the robots file of the origin cannot be
\* fetched the URL being checked is allowed, never denied.
C18_RobotsFailOpen ==
    [][(ROBOTS_CACHE = "miss" /\ ROBOTS_CACHE' \in RobotsProblems)
        => \E s \in Sessions : run[s].pc = "page_loop" /\ run'[s].pc = "fetch"]_vars

\* C19: every outcome of download_pdf_streaming other than success returns
\* no result, leaves no temporary file and leaves the destination absent.
C19_FailedDownloadLeavesNothing ==
    \A s \in Sessions :
        (run[s].pc = "dl_returned" /\ run[s].dl.outcome # "success")
            => /\ ~run[s].dl.result.ok
               /\ ~Exists(TempPath(run[s].local_path))
               /\ ~Exists(run[s].local_path)

C19_Witness ==
    \E s \in Sessions :
        /\ run[s].pc = "dl_returned"
        /\ run[s].dl.outcome = "streamed_size"
        /\ run[s].dl.streamed # <<>>

\* C20: when download_pdf_streaming returns a result the destination holds
\* exactly the streamed bytes, the returned size is their count and at most
\* MAX_FILE_SIZE_BYTES, the returned digest is their digest; before that the
\* destination path does not exist.
C20_DestinationIsWholeStream ==
    \A s \in Sessions :
        /\ (run[s].pc = "dl_returned" /\ run[s].dl.result.ok)
            => /\ Exists(run[s].local_path)
               /\ disk[run[s].local_path] = run[s].dl.streamed
               /\ run[s].dl.result.file_size = Len(run[s].dl.streamed)
               /\ run[s].dl.result.file_size <= MAX_FILE_SIZE_BYTES
               /\ run[s].dl.result.file_hash = sha256(run[s].dl.streamed)
        /\ (run[s].pc \in {"download", "dl_stream"}) => ~Exists(run[s].local_path)

C20_Witness ==
    \E s \in Sessions :
        /\ run[s].pc = "dl_returned"
        /\ run[s].dl.result.ok
        /\ run[s].dl.result.file_size = MAX_FILE_SIZE_BYTES
        /\ Exists(run[s].local_path)

\* A path is inside a directory when the directory's components are the
\* first components of the path.
is_inside(components, parent) ==
    Len(parent) <= Len(components) /\ SubSeq(components, 1, Len(parent)) = parent

\* C21: download_pdf_streaming rejects every destination that does not
\* resolve inside the storage root, before any request and without writing
\* anything; a sibling directory whose name starts with the root's name is
\* such a destination.
C21_OutsideRootRejected ==
    \A s \in Sessions :
        (/\ run[s].pc \in {"dl_stream", "dl_returned"}
         /\ ~is_inside(resolve(run[s].local_path), RAW_STORAGE_DIR))
            => run[s].dl.outcome = "unsafe" /\ disk = <<>>

\* C22: the sitemap probe is only a latency optimization: with a budget
\* that covers the site, what crawl_domain returns for the site with its
\* sitemap contains everything it returns for the site without it.
C22_SitemapOnlyFaster ==
    (/\ run[1].pc = "seed_done"
     /\ run[2].pc = "seed_done"
     /\ config[1].max_pages >= SitePages)
        => cd[2].pdf_urls \subseteq cd[1].pdf_urls

\* The first n entries ever appended for a session, in append order.
History(s, n) == [i \in 1..n |-> Entry(s, i)]

\* C23: a reader that tails a log with since = the number of entries it
\* has received receives every entry ever appended, once and in order,
\* also past MAX_LOG_ENTRIES appended entries: a reader that holds the
\* history up to some entry, and lacks no more than the log keeps, holds
\* the whole history after its next call.
C23_TailReceivesAll ==
    [][\A s \in Readers :
        (/\ GetCrawlLogs(s)
         /\ received[s] = History(s, Len(received[s]))
         /\ appended[s] - Len(received[s]) <= MAX_LOG_ENTRIES)
            => received'[s] = History(s, appended[s])]_vars

\* C24: each session's log holds at most MAX_LOG_ENTRIES entries, exactly
\* the most recent ones appended for that session, in append order.
C24_LogKeepsNewest ==
    \A s \in Sessions :
        LET n == appended[s]
            kept == Min(n, MAX_LOG_ENTRIES)
        IN /\ Len(CRAWL_LOGS[s]) = kept
           /\ Len(CRAWL_LOGS[s]) <= MAX_LOG_ENTRIES
           /\ \A i \in 1..kept : CRAWL_LOGS[s][i] = Entry(s, n - kept + i)

C24_Witness ==
    \E s, t \in Sessions :
        /\ s # t
        /\ appended[s] > MAX_LOG_ENTRIES
        /\ appended[t] > 0
        /\ appended[t] < appended[s]

\* C25: normalize_url is idempotent; its result has no tracking parameter
\* and no fragment, and its path has no trailing slash unless it is "/".
C25_NormalizeIdempotent ==
    /\ (call.fn = "normalize_url" /\ call.calls >= 1)
        => LET parsed == urlparse(call.once)
           IN /\ parsed.fragment = <<>>
              /\ \A i \in 1..Len(parse_qs(parsed.query)) :
                    ~is_tracking(parse_qs(parsed.query)[i])
              /\ parsed.path = <<"/">> \/ parsed.path[Len(parsed.path)] # "/"
    /\ (call.fn = "normalize_url" /\ call.calls = 2) => call.twice = call.once

\* The registrable domain of a host: its public suffix and the one label
\* in front of it.
registrable(netloc) ==
    LET suf == CHOOSE x \in HostSuffixes :
                /\ Len(netloc.labels) > Len(x)
                /\ LastLabels(netloc.labels, Len(x)) = x
    IN LastLabels(netloc.labels, Len(suf) + 1)

\* C26: same_domain is true exactly for two hosts with the same registrable
\* domain (a host and its subdomains), and it is reflexive and symmetric.
C26_SameRegistrableDomain ==
    (call.fn = "same_domain" /\ call.calls = 1)
        => /\ call.result = (registrable(call.seed) = registrable(call.candidate))
           /\ call.self
           /\ call.swapped = call.result

\* classify_document has returned for a document whose URL and filename
\* both contain "product-disclosure".
PdsByNameAndUrl ==
    /\ call.fn = "classify_document"
    /\ call.calls = 1
    /\ {"url", "filename"} \subseteq call.in.matches["PDS"]

C28_ConfidenceAndStatus ==
    (call.fn = "classify_document" /\ call.calls = 1)
        => /\ call.result.confidence \in 0..1000
           /\ (call.in.file_size # <<>> /\ call.in.file_size[1] < 10000)
                => /\ adjusted_confidence(call.in) < base_classification(call.in).confidence
                   /\ "Very small file" \in call.result.warnings
           /\ (call.result.status = "auto-approved") = (adjusted_confidence(call.in) >= 850)
           /\ call.result.status # "auto-approved"
                => /\ call.result.status = "needs-review"
                   /\ call.result.warnings \cap {"Low confidence", "Very low confidence"} # {}

RobotsCheckAllows(u) == ROBOTS_CACHE # "miss" /\ robots_allows(ROBOTS_CACHE, u)

\* C30: with robots compliance enabled, every request a session sends to
\* the site (sitemap probe, page fetch, header-only probe, PDF download) is
\* for a URL that a robots check has allowed.
C30_RequestsAllowedByRobots ==
    [][\A s \in Sessions :
        CRAWL_RESPECT_ROBOTS
            => /\ SitemapProbe(s) => RobotsCheckAllows("sitemap.xml")
               /\ FetchPage(s) => RobotsCheckAllows(cd[s].url)
               /\ HeadProbe(s) => RobotsCheckAllows(Head(cd[s].links))
               /\ DownloadPdf(s) => RobotsCheckAllows(run[s].pdf_url)]_vars

\* C31: a URL the page loop pops and robots denies is marked visited and
\* skipped: the page budget and the session's counters stay as they are, no
\* page request follows, and no page request is ever for a denied URL.
C31_DeniedUrlSkipped ==
    [][\A s \in Sessions :
        /\ (/\ PageLoopAnyRobots(s)
            /\ run'[s].pc # "seed_done"
            /\ cd[s].queue[PopIndex(cd[s].queue)] \notin run[s].global_visited
            /\ ~robots_allows(ROBOTS_CACHE', cd[s].queue[PopIndex(cd[s].queue)]))
            => /\ cd[s].queue[PopIndex(cd[s].queue)] \in run'[s].global_visited
               /\ cd'[s].pages_crawled = cd[s].pages_crawled
               /\ run'[s].pc = "page_loop"
               /\ crawl_sessions' = crawl_sessions
        /\ run'[s].pc = "fetch" => robots_allows(ROBOTS_CACHE', cd'[s].url)]_vars

C31_Witness ==
    \E s \in Sessions :
        /\ ROBOTS_CACHE = "deny_about"
        /\ "about" \in run[s].global_visited
        /\ run[s].pc = "page_loop"
        /\ cd[s].pages_crawled = 1

\* C32: the robots-cache lock is not held while a robots file is fetched;
\* concurrent misses may each fetch, after which the cache holds an entry
\* for the origin (rules or absent); the entry is never removed, and a call
\* that finds it is answered from it without a fetch.
C32_RobotsCacheRace ==
    [][\A t \in Checkers :
        /\ call.pc[t] = "read" => call.lock # t
        /\ ReadRobots(t) => call.lock = NoHolder \/ call.pc[call.lock] # "read"
        /\ StoreRobots(t) => ROBOTS_CACHE' \in AllRobotsAnswers
        /\ ROBOTS_CACHE # "miss" => ROBOTS_CACHE' # "miss"
        /\ (CheckCache(t) /\ ROBOTS_CACHE # "miss")
            => /\ call'.pc[t] = "idle"
               /\ call'.fetches = call.fetches
               /\ call'.result[t] = robots_allows(ROBOTS_CACHE, call.url[t])]_vars

\* Both threads have fetched the robots file, and a later call of one of
\* them was answered from the cache.
C32_Witness ==
    /\ call.fn = "can_fetch"
    /\ call.fetches = 2
    /\ ROBOTS_CACHE # "miss"
    /\ \E t \in Checkers :
        /\ call.calls[t] = 2
        /\ call.pc[t] = "idle"
        /\ ~call.fetched[t]

\* C33: the page loop of crawl_domain ends at the top of an iteration when
\* the queue is empty, the page budget is used up or the deadline has
\* passed; every other iteration removes one queue entry and either fetches
\* nothing or increases pages_crawled; a crawl_domain call that has entered
\* the loop returns.
C33_CrawlDomainTerminates ==
    /\ [][\A s \in Sessions :
            PageLoop(s)
                => IF \/ cd[s].queue = <<>>
                      \/ cd[s].pages_crawled >= cd[s].max_pages
                      \/ run[s].expired
                   THEN run'[s].pc = "seed_done"
                   ELSE /\ Len(cd'[s].queue) = Len(cd[s].queue) - 1
                        /\ \/ /\ run'[s].pc = "page_loop"
                              /\ cd'[s].pages_crawled = cd[s].pages_crawled
                           \/ /\ run'[s].pc = "fetch"
                              /\ cd'[s].pages_crawled = cd[s].pages_crawled + 1]_vars
    /\ \A s \in Sessions : (run[s].pc = "page_loop") ~> (run[s].pc = "seed_done")

\* After one fetched page the loop is at the top of an iteration with
\* budget and queue entries left and the deadline passed.
C33_Witness ==
    \E s \in Sessions :
        /\ run[s].pc = "page_loop"
        /\ run[s].expired
        /\ cd[s].queue # <<>>
        /\ cd[s].pages_crawled = 1
        /\ cd[s].max_pages > 1

\* C34: during a domain crawl the queue never holds more entries than its
\* ceiling and the visited set, shared by the seeds of the session, never
\* grows beyond its ceiling.
C34_QueueAndVisitedCeilings ==
    [][\A s \in Sessions :
        run'[s].pc \in {"page_loop", "fetch", "links"}
            => /\ Len(cd'[s].queue) <= queue_ceiling(SmallLimits, cd'[s].max_pages)
               /\ run'[s].global_visited # run[s].global_visited
                    => Cardinality(run'[s].global_visited)
                            <= visited_ceiling(SmallLimits, cd'[s].max_pages)]_vars

\* The positions of a session inside the loop over its seeds.
SeedPhase == {"seed_loop", "crawl_domain", "page_loop", "fetch", "links", "seed_done"}

\* C35: within one session no URL is fetched as a page twice: a URL is
\* requested only when the visited set does not hold it, it is in the set
\* from then on, and the set keeps its members as long as the session is
\* crawling its seeds.
C35_NoPageFetchedTwice ==
    [][\A s \in Sessions :
        /\ (run[s].pc # "fetch" /\ run'[s].pc = "fetch")
                => /\ cd'[s].url \notin run[s].global_visited
                   /\ cd'[s].url \in run'[s].global_visited
        /\ (run[s].pc \in SeedPhase /\ run'[s].pc \in SeedPhase)
                => run[s].global_visited \subseteq run'[s].global_visited]_vars

\* The second seed is the page the first seed has fetched: it is popped
\* and dropped without a request.
C35_Witness ==
    \E s \in Sessions :
        /\ run[s].pc = "page_loop"
        /\ run[s].idx = 2
        /\ run[s].total_pages = 1
        /\ ROBOTS_CACHE # "miss"
        /\ robots_allows(ROBOTS_CACHE, cd[s].seed)
        /\ cd[s].seed \in run[s].global_visited
        /\ cd[s].queue = <<>>
        /\ cd[s].pages_crawled = 0

\* C37: in both modes an inserted link leaves the queue before every entry
\* that was waiting behind the first ten positions when it was inserted.
C37_PriorityBeforeWaiting ==
    call.fn = "queue" =>
        (call.popped \cap call.behind # {} => call.tracked \in call.popped)

\* The candidates of a session that the counters of its row account for.
counted(row) == row.pdfs_downloaded + row.pdfs_filtered + row.errors_count

C39_DocumentFileMatchesHash ==
    [][\A d \in documents' \ documents :
        /\ d.local_file_path \in DOMAIN disk'
        /\ disk'[d.local_file_path] = d.file_hash]_vars

\* C40: after the deadline has passed, the seed loop starts no further
\* seed and the candidate loop no further candidate; leaving either loop
\* changes no counter, the terminal write sets progress 100 and counts only
\* what the loop has met, and the session ends completed unless an
\* exception has ended it.
C40_DeadlineEndsCompleted ==
    /\ [][\A s \in Sessions :
            /\ (run[s].expired /\ run[s].pc = "seed_loop" /\ run'[s] # run[s])
                    => /\ run'[s].pc = "download_loop"
                       /\ run'[s].todo = run[s].all_pdf_urls
                       /\ crawl_sessions'[s] = crawl_sessions[s]
            /\ (run[s].expired /\ run[s].pc = "download_loop" /\ run'[s] # run[s])
                    => /\ run'[s].pc = "complete"
                       /\ run'[s].downloaded_count = run[s].downloaded_count
                       /\ run'[s].filtered_count = run[s].filtered_count
                       /\ crawl_sessions'[s] = crawl_sessions[s]
                       /\ documents' = documents
                       /\ disk' = disk
            /\ (run[s].pc = "complete" /\ crawl_sessions'[s].status = "completed")
                    => crawl_sessions'[s] =
                            [crawl_sessions[s] EXCEPT !.status = "completed",
                                                      !.progress_pct = 100,
                                                      !.pdfs_filtered = run[s].filtered_count]]_vars
    /\ \A s \in Sessions :
            run[s].expired ~> (crawl_sessions[s].status = "completed" \/ fail_cause[s] # "none")

\* The deadline has passed during the download phase: the session is
\* completed with one of its two candidates stored and the other not met.
C40_Witness ==
    \E s \in Sessions :
        /\ crawl_sessions[s].status = "completed"
        /\ crawl_sessions[s].progress_pct = 100
        /\ crawl_sessions[s].pdfs_found = 2
        /\ crawl_sessions[s].pdfs_downloaded = 1
        /\ crawl_sessions[s].pdfs_filtered = 0
        /\ crawl_sessions[s].errors_count = 0

\* The positions of a session inside the loop over its candidates.
DownloadPhase == {"download_loop", "download", "dl_stream", "dl_returned", "dedup", "store"}

NetworkRequest(s) == SitemapProbe(s) \/ FetchPage(s) \/ HeadProbe(s) \/ DownloadPdf(s)

\* C10: once the deadline of a session has passed, the session starts no
\* further network request.
C10_NoRequestAfterDeadline ==
    [][\A s \in Sessions : run[s].expired => ~NetworkRequest(s)]_vars
====
